---- MODULE Spec2Model ----
(***************************************************************************)
(* Model of Monocle's notification engine (src/monocle/notifier.py and     *)
(* src/monocle/notifyconfig.py): the de-duplication set _TempSet, the      *)
(* fan-out deliverer _multi_send, the channel cooldown, rule matching and  *)
(* the spawn and raid orchestrators SpawnNotifier.notify / eligible and    *)
(* FortNotifier.raid_notify, run as coroutines of one asyncio event loop.  *)
(*                                                                         *)
(* Numbers.  Scores (ivfrac, rareness, score, cooldown) are kept in        *)
(* twentieths: 20 stands for 1.0.  Time (the monotonic clock, timer        *)
(* delays, remaining seconds) is kept in ticks of 900 seconds, so that the *)
(* default FULL_TIME of 1800 seconds is 2 ticks.  With these units every   *)
(* division the code performs on the modelled inputs is exact.             *)
(*                                                                         *)
(* Python's None and optional values are sequences of length 0 or 1.       *)
(***************************************************************************)
EXTENDS Integers, Sequences, FiniteSets, TLC

VARIABLES
    handled,    \* SpawnNotifier._handled: the _TempSet of encounter ids
    timers,     \* loop.call_later(delay, _items.discard, item) not yet run
    now,        \* time.monotonic(), in ticks
    prior,      \* Channel.cooldown._prior of every channel
    ranks,      \* SpawnNotifier._ranks
    rareness,   \* SpawnNotifier._rareness
    numsent,    \* [spawn |-> SpawnNotifier.numsent, fort |-> FortNotifier.numsent]
    call,       \* the notify(), raid_notify() and eligible() calls, one per slot
    probe,      \* a channel under configuration and the match run on it
    conf,       \* the settings _make_rareness_dict and _init_ranks read
    refresh,    \* the periodic _refresh_ranks: its timers and its task
    cooldown    \* a _Cooldown object on its own

vars == <<handled, timers, now, prior, ranks, rareness, numsent, call, probe,
          conf, refresh, cooldown>>

-----------------------------------------------------------------------------
(* Bounds of the model *)

MaxTime == 2        \* the clock stops advancing here
MaxSent == 2        \* the sent count never exceeds this

(* Call slots: at most two calls at once.  A new call takes the first free  *)
(* slot; both slots run notify(), raid_notify() and eligible() run in the   *)
(* first one, so that each of them is seen next to a running notify().      *)
Calls == {1, 2}
FirstSlot == {1}

-----------------------------------------------------------------------------
(* Configuration (monocle.sanitized / config.py) *)

FULL_TIME == 2          \* 1800 s, in ticks of 900 s
INITIAL_SCORE == 14     \* 0.7, in twentieths
MINIMUM_SCORE == 8      \* 0.4, in twentieths
TIME_REQUIRED == 1      \* ticks
ENCOUNTER == TRUE       \* conf.ENCOUNTER is set ('all' or 'some')
DEFAULT_KEEP == 4      \* 3600 seconds, in ticks of 900 seconds
INF == 1000000          \* float('inf')
NEG_INF == -1000000     \* float('-inf')

None == <<>>
Some(x) == <<x>>

(* notifyconfig._Getter(name) and a constant operand of a _GetOper *)
Var(n) == [k |-> "var", n |-> n, c |-> 0]
Const(c) == [k |-> "const", n |-> "", c |-> c]
(* notifyconfig._Getter.__lt__ etc.: build a _GetOper test *)
Test(l, op, r) == [l |-> l, op |-> op, r |-> r]

RuleBool(b) == [kind |-> "bool", val |-> b, tests |-> <<>>]
RuleTests(ts) == [kind |-> "tests", val |-> FALSE, tests |-> ts]

(* ChannelMap._add_legacy_rules, the default branch: the fallback rule      *)
(* [score >= cooldown, remain >= TIME_REQUIRED]                            *)
LegacyRule ==
    RuleTests(<<Test(Var("score"), ">=", Var("cooldown")),
                Test(Var("remain"), ">=", Const(TIME_REQUIRED))>>)

(* The channels in ChannelMap order.  A rule map is the species' own rules  *)
(* plus the fallback rules registered under the Ellipsis key.              *)
ChannelOrder == <<"default", "vip", "quiet">>
Channels == {ChannelOrder[i] : i \in 1..Len(ChannelOrder)}

ChannelConf ==
    [default |->
        [senders |-> <<"discord">>,
         spawnlaw |-> <<>>,
         spawnrules |-> [species |-> <<>>, fallback |-> <<LegacyRule>>],
         raidrules |-> [species |-> <<>>, fallback |-> <<>>]],
     vip |->
        [senders |-> <<"twitter">>,
         spawnlaw |-> <<Test(Var("remain"), ">", Const(0)),
                        Test(Var("iv"), ">", Const(80))>>,
         spawnrules |-> [species |-> (1 :> <<RuleBool(TRUE)>>), fallback |-> <<>>],
         raidrules |-> [species |-> (1 :> <<RuleBool(TRUE)>>),
                        fallback |-> <<RuleTests(<<Test(Var("dexno"), "==", Const(1))>>),
                                       RuleTests(<<Test(Var("tier"), ">=", Const(5))>>)>>]],
     quiet |->
        [senders |-> <<>>,
         spawnlaw |-> <<>>,
         spawnrules |-> [species |-> <<>>, fallback |-> <<>>],
         raidrules |-> [species |-> (2 :> <<RuleTests(<<Test(Var("tier"), ">=", Const(3))>>)>>),
                        fallback |-> <<>>]]]

(* Sender.want_attachments(Spawn): only the Twitter sender asks for images *)
WantAttachments(s) == s = "twitter"

-----------------------------------------------------------------------------
(* _Cooldown *)

(* _Cooldown.__init__: _prior = monotonic() - duration / 2 *)
CooldownInit(t) == t - FULL_TIME \div 2

(* _Cooldown.reset: _prior = monotonic() *)
CooldownReset(t) == t

(* _Cooldown.get, for busy = INITIAL_SCORE, idle = MINIMUM_SCORE,          *)
(* duration = FULL_TIME (Channel._make_cooldown)                           *)
CooldownGet(pr, t) ==
    LET busy == INITIAL_SCORE
        idle == MINIMUM_SCORE
        diff == busy - idle
        elapsed == t - pr
    IN  IF diff = 0 \/ FULL_TIME = 0 THEN idle
        ELSE IF elapsed >= FULL_TIME THEN idle
        ELSE (busy * FULL_TIME - diff * elapsed) \div FULL_TIME

(* a _Cooldown whose __init__ starts the cooldown at the construction:     *)
(* _prior = monotonic()                                                    *)
NewCooldownFromBusy(busy, idle, duration, t) ==
    [busy |-> busy, idle |-> idle, diff |-> busy - idle,
     duration |-> duration, prior2 |-> 2 * t,
     got |-> None, at |-> 0, wasreset |-> FALSE]

(* a _Cooldown object with its own busy, idle and duration.  Its _prior   *)
(* is kept doubled (prior2 = 2 * _prior), so that the duration / 2 of      *)
(* __init__ is exact; a value is the fraction num / den; got is the value  *)
(* the last get() since the last reset() returned, at the time `at`;       *)
(* wasreset tells whether reset() was ever called                          *)
NewCooldown(busy, idle, duration, t) ==
    [busy |-> busy, idle |-> idle, diff |-> busy - idle,
     duration |-> duration, prior2 |-> 2 * t - duration,
     got |-> None, at |-> 0, wasreset |-> FALSE]

(* Channel._make_cooldown under the configured scores *)
MakeCooldown == NewCooldown(INITIAL_SCORE, MINIMUM_SCORE, FULL_TIME, 0)

Whole(x) == [num |-> x, den |-> 1]

(* a get() that never settles on the idle value *)
CooldownValueNoSettle(cd, t) ==
    LET elapsed2 == 2 * t - cd.prior2
    IN  IF cd.diff = 0 \/ cd.duration = 0 THEN Whole(cd.idle)
        ELSE [num |-> cd.busy * 2 * cd.duration - cd.diff * elapsed2,
              den |-> 2 * cd.duration]

(* _Cooldown.get at time t: progress = elapsed2 / (2 * duration) *)
CooldownValue(cd, t) ==
    LET elapsed2 == 2 * t - cd.prior2
    IN  IF cd.diff = 0 \/ cd.duration = 0 THEN Whole(cd.idle)
        ELSE IF elapsed2 >= 2 * cd.duration THEN Whole(cd.idle)
        ELSE [num |-> cd.busy * 2 * cd.duration - cd.diff * elapsed2,
              den |-> 2 * cd.duration]

-----------------------------------------------------------------------------
(* Rule tests (notifyconfig._GetOper) and rule matching *)

(* ChainMap(testvars, {'cooldown': channel.cooldown.get()}) *)
ChainCooldown(testvars, cd) ==
    [n \in DOMAIN testvars \cup {"cooldown"} |->
        IF n \in DOMAIN testvars THEN testvars[n] ELSE cd]

(* testvars.new_child({'score': s}) *)
NewChildScore(ctx, s) ==
    [n \in DOMAIN ctx \cup {"score"} |-> IF n = "score" THEN s ELSE ctx[n]]

Ok(b) == [ok |-> TRUE, val |-> b, key |-> ""]
KeyError(name) == [ok |-> FALSE, val |-> FALSE, key |-> name]

(* the operator functions of notifyconfig._Getter.__lt__ .. __ge__ *)
OpFunc(op, a, b) ==
    CASE op = "<"  -> a < b
      [] op = "<=" -> a <= b
      [] op = "==" -> a = b
      [] op = "!=" -> a # b
      [] op = ">"  -> a > b
      [] op = ">=" -> a >= b

(* _GetOper.__call__: the left getter is read first, then the right one;   *)
(* a getter on a missing variable raises KeyError(name)                    *)
CallTest(test, ctx) ==
    LET missing(o) == o.k = "var" /\ o.n \notin DOMAIN ctx
        value(o) == IF o.k = "var" THEN ctx[o.n] ELSE o.c
    IN  IF missing(test.l) THEN KeyError(test.l.n)
        ELSE IF missing(test.r) THEN KeyError(test.r.n)
        ELSE Ok(OpFunc(test.op, value(test.l), value(test.r)))

(* the score bounds (rareness + 1) / 2 and rareness / 2 of run_test *)
HalfOf(x) == IF x = NEG_INF THEN NEG_INF ELSE x \div 2
MaxScore(rar) == IF rar = NEG_INF THEN NEG_INF ELSE (rar + 20) \div 2
MinScore(rar) == HalfOf(rar)

(* _match_rules.run_test, both variants *)
RunTest(test, ctx, optimism) ==
    LET r == CallTest(test, ctx)
    IN  IF ~optimism \/ r.ok THEN r
        ELSE IF ~ENCOUNTER THEN Ok(FALSE)
        ELSE IF r.key = "score" THEN
            LET hi == CallTest(test, NewChildScore(ctx, MaxScore(ctx["rareness"])))
                lo == CallTest(test, NewChildScore(ctx, MinScore(ctx["rareness"])))
            IN  IF ~hi.ok THEN hi
                ELSE IF hi.val THEN Ok(TRUE)
                ELSE lo
        ELSE Ok(TRUE)

(* any() in the place of all(): one test that returns true is enough *)
AllTestsAny(tests, ctx, optimism) ==
    Ok(\E i \in 1..Len(tests) : RunTest(tests[i], ctx, optimism) = Ok(TRUE))

(* all(run_test(test) for test in tests): stops at the first false test,   *)
(* raises at the first KeyError                                            *)
RECURSIVE AllTests(_, _, _)
AllTests(tests, ctx, optimism) ==
    IF tests = <<>> THEN Ok(TRUE)
    ELSE LET r == RunTest(Head(tests), ctx, optimism)
         IN  IF ~r.ok THEN r
             ELSE IF ~r.val THEN Ok(FALSE)
             ELSE AllTests(Tail(tests), ctx, optimism)

(* a lookup that consults the wildcard rules after the species' own *)
RulesForBoth(rulemap, dexno) ==
    LET own == IF dexno # None /\ Head(dexno) \in DOMAIN rulemap.species
               THEN rulemap.species[Head(dexno)] ELSE <<>>
    IN  own \o rulemap.fallback

(* rules.get(dexno) or rules.get(...) or () *)
RulesFor(rulemap, dexno) ==
    LET own == IF dexno # None /\ Head(dexno) \in DOMAIN rulemap.species
               THEN rulemap.species[Head(dexno)] ELSE <<>>
    IN  IF own # <<>> THEN own ELSE rulemap.fallback

(* the rule loop shared by _match_rules and _match_raid_rules: a boolean   *)
(* rule is returned as it is, a rule whose tests all pass returns True, a  *)
(* KeyError moves on to the next rule                                      *)
RECURSIVE RuleLoop(_, _, _)
RuleLoop(rules, ctx, optimism) ==
    IF rules = <<>> THEN FALSE
    ELSE LET rule == Head(rules)
         IN  IF rule.kind = "bool" THEN rule.val
             ELSE LET r == AllTests(rule.tests, ctx, optimism)
                  IN  IF r.ok /\ r.val THEN TRUE
                      ELSE RuleLoop(Tail(rules), ctx, optimism)

(* a _match_rules in which a literal True rule in first place answers      *)
(* before the law is checked                                               *)
MatchRulesOfTrueFirst(spawnlaw, spawnrules, dexno, testvars, optimism, cd) ==
    LET ctx == ChainCooldown(testvars, cd)
        law == AllTests(spawnlaw, ctx, optimism)
        rules == RulesFor(spawnrules, Some(dexno))
    IN  IF rules # <<>> /\ Head(rules) = RuleBool(TRUE) THEN Ok(TRUE)
        ELSE IF ~law.ok THEN law
        ELSE IF ~law.val THEN Ok(FALSE)
        ELSE Ok(RuleLoop(rules, ctx, optimism))

(* SpawnNotifier._match_rules on a channel with spawn law `spawnlaw` and   *)
(* spawn rules `spawnrules` whose cooldown.get() is cd: the law is checked *)
(* outside the try of the rule loop, so a KeyError of a law test leaves    *)
(* _match_rules                                                            *)
MatchRulesOf(spawnlaw, spawnrules, dexno, testvars, optimism, cd) ==
    LET ctx == ChainCooldown(testvars, cd)
        law == AllTests(spawnlaw, ctx, optimism)
    IN  IF ~law.ok THEN law
        ELSE IF ~law.val THEN Ok(FALSE)
        ELSE Ok(RuleLoop(RulesFor(spawnrules, Some(dexno)), ctx, optimism))

(* SpawnNotifier._match_rules on a configured channel *)
MatchRules(channel, dexno, testvars, optimism, cd) ==
    MatchRulesOf(ChannelConf[channel].spawnlaw, ChannelConf[channel].spawnrules,
                 dexno, testvars, optimism, cd)

(* names.POKEMON[dexno], an argument of the log call in the except branch  *)
(* of the rule loops: the table of names answers every key, the Ellipsis   *)
(* that stands for the species of an egg included                          *)
NamesPokemon(dexno) == Ok(TRUE)

RECURSIVE RaidRuleLoop(_, _, _)
(* a rule loop that gives up at the first rule that reads a missing        *)
(* variable: `return False` in the place of `continue`                     *)
RaidRuleLoopNoContinue(rules, testvars, dexno) ==
    IF rules = <<>> THEN Ok(FALSE)
    ELSE LET rule == Head(rules)
         IN  IF rule.kind = "bool" THEN Ok(rule.val)
             ELSE LET r == AllTests(rule.tests, testvars, FALSE)
                  IN  IF r.ok /\ r.val THEN Ok(TRUE)
                      ELSE IF ~r.ok THEN Ok(FALSE)
                      ELSE RaidRuleLoop(Tail(rules), testvars, dexno)

(* the rule loop of _match_raid_rules with its except branch: a KeyError   *)
(* of a rule is logged with the name of the species and the loop moves on  *)
(* to the next rule; a KeyError of the name lookup would leave the loop    *)
RaidRuleLoop(rules, testvars, dexno) ==
    IF rules = <<>> THEN Ok(FALSE)
    ELSE LET rule == Head(rules)
         IN  IF rule.kind = "bool" THEN Ok(rule.val)
             ELSE LET r == AllTests(rule.tests, testvars, FALSE)
                  IN  IF r.ok /\ r.val THEN Ok(TRUE)
                      ELSE IF ~r.ok /\ ~NamesPokemon(dexno).ok
                           THEN KeyError("Ellipsis")
                      ELSE RaidRuleLoop(Tail(rules), testvars, dexno)

(* FortNotifier._match_raid_rules on a channel with raid rules raidrules:  *)
(* no law, no cooldown, no optimism                                        *)
MatchRaidRulesOf(raidrules, testvars) ==
    LET dexno == IF "dexno" \in DOMAIN testvars THEN Some(testvars["dexno"]) ELSE None
    IN  RaidRuleLoop(RulesFor(raidrules, dexno), testvars, dexno)

(* FortNotifier._match_raid_rules on a configured channel *)
MatchRaidRules(channel, testvars) ==
    MatchRaidRulesOf(ChannelConf[channel].raidrules, testvars)

-----------------------------------------------------------------------------
(* Events *)

(* One record shape for both kinds of event.  A spawn carries the worker's *)
(* pokemon dict: encounter_id, pokemon_id, the IV sum                      *)
(* individual_attack + individual_defense + individual_stamina when the    *)
(* pokemon was encountered, and time_till_hidden when known.  A raid       *)
(* carries raid_level and, once hatched, raid_pokemon.pokemon_id.          *)
Pokemon(id, dexno, ivsum, tth) ==
    [encounter_id |-> id, pokemon_id |-> Some(dexno), ivsum |-> ivsum,
     tth |-> tth, tier |-> 0]
RaidEvent(tier, dexno) ==
    [encounter_id |-> 0, pokemon_id |-> dexno, ivsum |-> None,
     tth |-> None, tier |-> tier]
NoEvent == [encounter_id |-> 0, pokemon_id |-> None, ivsum |-> None,
            tth |-> None, tier |-> 0]

(* The spawns the workers report.  IV sums are multiples of 9, so that     *)
(* ivfrac, ivpercent, iv and score are exact.                              *)
Pokemons ==
    { Pokemon(1, 1, Some(45), Some(2)),   \* perfect, rarest species
      Pokemon(1, 1, None, None),          \* the same spawn before its encounter
      Pokemon(2, 2, Some(18), None),      \* middling, despawn time unknown
      Pokemon(2, 3, Some(45), Some(1)) }  \* perfect, unranked species

Raids == { RaidEvent(5, None), RaidEvent(1, None), RaidEvent(3, Some(1)), RaidEvent(3, Some(2)) }

(* what db.estimate_remaining_time (or the fallback of                     *)
(* _diligent_make_remain_vars after an SQLAlchemyError) may hand back      *)
TimeRanges == { <<1, 1>>, <<0, 2>> }

(* the ranking NOTIFY_IDS / the database gives, most to least rare *)
Ranking == <<1, 2>>

(* the position of an item in a ranking, counted from 1; the last one     *)
(* when the item is there more than once                                   *)
LastPos(ranking, d) ==
    CHOOSE i \in 1..Len(ranking) :
        /\ ranking[i] = d
        /\ \A j \in 1..Len(ranking) : ranking[j] = d => j <= i

(* a rank table that counts positions from 1 *)
MakeRankDictFromOne(ranking) ==
    [d \in {ranking[i] : i \in 1..Len(ranking)} |-> LastPos(ranking, d)]

(* SpawnNotifier._make_rank_dict: a dict comprehension over                *)
(* enumerate(ranking), in which a later position replaces an earlier one   *)
MakeRankDict(ranking) ==
    [d \in {ranking[i] : i \in 1..Len(ranking)} |-> LastPos(ranking, d) - 1]

(* SpawnNotifier._make_rareness_dict without NOTIFY_RANKING,               *)
(* EMULATE_LEGACY_RARITY_BUGS and RARITY_OVERRIDE: origin = 0              *)
MakeRarenessDict(ranking) ==
    LET count == Len(ranking)
        steps == IF count > 1 THEN count ELSE 1
    IN  [d \in {ranking[i] : i \in 1..count} |->
            20 - (20 * ((CHOOSE i \in 1..count : ranking[i] = d) - 1)) \div steps]

(* the settings of sanitized.py: no NOTIFY_IDS, no NOTIFY_RANKING, no      *)
(* ALWAYS_NOTIFY, no RARITY_OVERRIDE, no EMULATE_LEGACY_RARITY_BUGS        *)
DefaultConf ==
    [NOTIFY_IDS |-> None, NOTIFY_RANKING |-> 0, ALWAYS_NOTIFY |-> 0,
     EMULATE_LEGACY_RARITY_BUGS |-> FALSE, ALWAYS_NOTIFY_IDS |-> {},
     RARITY_OVERRIDE |-> <<>>]

(* _init_ranks: with NOTIFY_IDS nothing is scheduled, otherwise one        *)
(* call_later of _launch_refresh_ranks.  timers counts the pending         *)
(* call_later handles, tasks the _refresh_ranks tasks waiting for their    *)
(* threaded read; ranking is the ranking last read and last the outcome of *)
(* the last refresh                                                        *)
InitRefresh(cf) ==
    [timers |-> IF cf.NOTIFY_IDS # None THEN 0 ELSE 1,
     tasks |-> 0, last |-> "none",
     ranking |-> IF cf.NOTIFY_IDS # None THEN Head(cf.NOTIFY_IDS) ELSE Ranking]

(* `assert len(ranking) == len(set(ranking))` fails *)
HasDuplicate(ranking) ==
    \E i, j \in 1..Len(ranking) : i < j /\ ranking[i] = ranking[j]

Min(a, b) == IF a <= b THEN a ELSE b
Max(a, b) == IF a >= b THEN a ELSE b

(* ranking[:n] *)
Prefix(ranking, n) == SubSeq(ranking, 1, Min(n, Len(ranking)))

Items(ranking) == {ranking[i] : i \in 1..Len(ranking)}

(* the ranking cut to max(NOTIFY_RANKING, ALWAYS_NOTIFY) items *)
Truncated(cf, ranking) ==
    IF cf.NOTIFY_RANKING # 0
    THEN Prefix(ranking, Max(cf.NOTIFY_RANKING, cf.ALWAYS_NOTIFY))
    ELSE ranking

(* the always-notify head-set `exclude` *)
Exclude(cf, ranking) ==
    (IF cf.NOTIFY_RANKING # 0
     THEN Items(Prefix(Truncated(cf, ranking), cf.ALWAYS_NOTIFY)) ELSE {})
    \cup (IF cf.EMULATE_LEGACY_RARITY_BUGS THEN cf.ALWAYS_NOTIFY_IDS ELSE {})

(* the offset within the ranking where rareness is 1.0 *)
Origin(cf, ranking) ==
    IF Exclude(cf, ranking) # {}
    THEN Min(Cardinality(Exclude(cf, ranking)), Len(Truncated(cf, ranking)))
    ELSE 0

Steps(cf, ranking) ==
    Max(Len(Truncated(cf, ranking)) - Origin(cf, ranking), 1)

(* a table whose rareness rises with the rank *)
RarenessTableRising(cf, ranking) ==
    LET cut == Truncated(cf, ranking)
        origin == Origin(cf, ranking)
        steps == Steps(cf, ranking)
        override == cf.RARITY_OVERRIDE
    IN  [d \in Items(cut) \cup DOMAIN override |->
            IF d \in DOMAIN override THEN override[d]
            ELSE [num |-> steps + (LastPos(cut, d) - 1 - origin),
                  den |-> steps]]

(* SpawnNotifier._make_rareness_dict on a ranking without duplicate, under *)
(* the settings cf: rareness 1 - (i - origin) / steps as the fraction      *)
(* num / den, then rareness.update(RARITY_OVERRIDE)                        *)
RarenessTable(cf, ranking) ==
    LET cut == Truncated(cf, ranking)
        origin == Origin(cf, ranking)
        steps == Steps(cf, ranking)
        override == cf.RARITY_OVERRIDE
    IN  [d \in Items(cut) \cup DOMAIN override |->
            IF d \in DOMAIN override THEN override[d]
            ELSE [num |-> steps - (LastPos(cut, d) - 1 - origin),
                  den |-> steps]]

(* a rareness table in the twentieths MakeTestVars computes with *)
Twentieths(table) ==
    [d \in DOMAIN table |-> (20 * table[d].num) \div table[d].den]

(* SpawnNotifier._make_test_vars (lat, lon, moves, gender, size, cp and    *)
(* level are not read by any configured rule and are left out)            *)
MakeTestVars(pokemon, rk, rar) ==
    LET dexno == Head(pokemon.pokemon_id)
        rank == IF dexno \in DOMAIN rk THEN rk[dexno] ELSE INF
        rarity == IF dexno \in DOMAIN rar THEN rar[dexno] ELSE NEG_INF
        base == [n \in {"rank", "rareness"} |-> IF n = "rank" THEN rank ELSE rarity]
    IN  IF pokemon.ivsum = None THEN base
        ELSE LET ivsum == Head(pokemon.ivsum)
                 ivfrac == (ivsum * 20) \div 45
                 ivpercent == (ivsum * 100) \div 45
                 score == IF rarity = NEG_INF THEN NEG_INF ELSE (ivfrac + rarity) \div 2
             IN  [n \in {"rank", "rareness", "ivfrac", "ivpercent", "iv", "score"} |->
                    CASE n = "rank" -> rank
                      [] n = "rareness" -> rarity
                      [] n = "ivfrac" -> ivfrac
                      [] n = "ivpercent" -> ivpercent
                      [] n = "iv" -> ivpercent
                      [] n = "score" -> score]

(* SpawnNotifier._make_remain_vars *)
MakeRemainVars(remainmin, remainmax) ==
    IF remainmin = None THEN <<>>
    ELSE LET lo == Head(remainmin)
             hi == IF remainmax = None THEN lo ELSE Head(remainmax)
         IN  [n \in {"remainmin", "remainmax", "remain", "margin"} |->
                CASE n = "remainmin" -> lo
                  [] n = "remainmax" -> hi
                  [] n = "remain" -> (hi + lo) \div 2
                  [] n = "margin" -> (hi - lo) \div 2]

(* FortNotifier._make_raid_test_vars (times and moves left out) *)
MakeRaidTestVars(raid) ==
    IF raid.pokemon_id = None THEN [n \in {"tier"} |-> raid.tier]
    ELSE [n \in {"tier", "dexno"} |->
            IF n = "tier" THEN raid.tier ELSE Head(raid.pokemon_id)]

(* dict.update: the second dict's keys win *)
Update(a, b) ==
    [n \in DOMAIN a \cup DOMAIN b |-> IF n \in DOMAIN b THEN b[n] ELSE a[n]]

-----------------------------------------------------------------------------
(* The coroutines.  A call record is one notify() or raid_notify() call:   *)
(*   pc        where the coroutine is suspended ("idle": no call)          *)
(*   ev        the event it was called with                                *)
(*   testvars  its testvars dict                                           *)
(*   evaluated whether it has run the channels' rules                      *)
(*   matched   its list `channels`                                         *)
(*   sends     the state of s.send() for each sender of `senders`          *)
(*   ms        how its _multi_send call ended                              *)
(*   count     what _multi_send returned                                   *)
(*   ret       what the call returned to its caller                        *)
(*   exc       the exception that ended it ("" when it returned normally)  *)

IdleCall ==
    [pc |-> "idle", kind |-> "none", ev |-> NoEvent, testvars |-> <<>>,
     evaluated |-> FALSE, matched |-> {}, sends |-> <<>>, ms |-> "none",
     count |-> 0, ret |-> "-", exc |-> ""]

(* what a send() that has completed did: returned, or raised SenderError,  *)
(* KeyError(type(event)), a KeyError with another argument, a KeyError     *)
(* without arguments, or any other Exception                               *)
Failures == {"SenderError", "KeyErrorEvent", "KeyErrorOther", "KeyErrorNoArgs", "Exception"}
Outcomes == {"ok"} \cup Failures

(* the outcomes drawn for the senders of an orchestrator call: one of each *)
(* way _multi_send treats a result                                         *)
OrchestratorOutcomes == {"ok", "SenderError", "KeyErrorOther"}

(* the senders of the matched channels, in channel order:                  *)
(* list(itertools.chain.from_iterable(c.senders for c in channels))        *)
RECURSIVE ChainSenders(_, _)
ChainSenders(order, matched) ==
    IF order = <<>> THEN <<>>
    ELSE (IF Head(order) \in matched THEN ChannelConf[Head(order)].senders ELSE <<>>)
         \o ChainSenders(Tail(order), matched)

(* the shared state a step of call record c reads and writes *)
State(c) ==
    [c |-> c, handled |-> handled, timers |-> timers, prior |-> prior,
     numsent |-> numsent]

(* a membership test that never finds the item: the check before the      *)
(* `with` block no longer answers for an encounter that is being handled   *)
InHandledNever(item, items) == FALSE

(* `item in self._handled` *)
InHandled(item, items) == item \in items

(* _TempSet._Manager.__enter__ *)
ManagerEnter(items, item) ==
    IF item \in items THEN [raised |-> TRUE, items |-> items]
    ELSE [raised |-> FALSE, items |-> items \cup {item}]

(* an __exit__ without its else branch: with no delay the item is never    *)
(* discarded                                                               *)
ManagerExitNoDiscard(st, item, delay) ==
    IF delay # 0
    THEN [st EXCEPT !.timers = @ \cup {[item |-> item,
                                        left |-> IF delay < 0 THEN 0 ELSE delay]}]
    ELSE st

(* _TempSet._Manager.__exit__ with self.delay = delay: loop.call_later     *)
(* runs the discard once the delay has passed (at once if it is negative)  *)
ManagerExit(st, item, delay) ==
    IF delay # 0
    THEN [st EXCEPT !.timers = @ \cup {[item |-> item,
                                        left |-> IF delay < 0 THEN 0 ELSE delay]}]
    ELSE [st EXCEPT !.handled = @ \ {item}]

(* the call returns ret: a spawn call leaves its `with` block on the way   *)
Leave(st, ret, delay) ==
    LET s1 == IF st.c.kind = "spawn"
              THEN ManagerExit(st, st.c.ev.encounter_id, delay)
              ELSE st
    IN  [s1 EXCEPT !.c.pc = "done", !.c.ret = ret]

(* an exception that ends the call without running the __exit__ of its    *)
(* `with` block                                                            *)
RaiseSkippingExit(st, exc) ==
    [st EXCEPT !.c.exc = exc, !.c.pc = "done", !.c.ret = "None"]

(* the call raises exc: a spawn call leaves its `with` block without a     *)
(* keep(), and exception_logging_coro(suppress=Exception) logs the         *)
(* exception and hands None to the caller                                  *)
Raise(st, exc) == Leave([st EXCEPT !.c.exc = exc], "None", 0)

(* gather without return_exceptions: it is done as soon as one send() has  *)
(* raised                                                                  *)
GatherFirstException(sends) ==
    \/ \A i \in 1..Len(sends) : sends[i] # "pending"
    \/ \E i \in 1..Len(sends) : sends[i] \notin {"pending", "ok"}

(* gather(return_exceptions=True) is done once every send() has ended *)
GatherDone(sends) == \A i \in 1..Len(sends) : sends[i] # "pending"

(* the rest of _multi_send, on the results of gather: the logging loop     *)
(* evaluates issubclass(result.args[0], Event) on every KeyError, which    *)
(* raises IndexError without arguments and TypeError when the argument is  *)
(* no class; otherwise the number of results that are no Exception         *)
MultiSendResult(results) ==
    IF \E i \in 1..Len(results) : results[i] \in {"KeyErrorOther", "KeyErrorNoArgs"}
    THEN [raised |-> TRUE, count |-> 0]
    ELSE [raised |-> FALSE,
          count |-> Cardinality({i \in 1..Len(results) : results[i] = "ok"})]

(* a result that only says that the senders were invoked *)
BoolStrInvoked(b) == "True"

(* `return bool(count)` *)
BoolStr(b) == IF b THEN "True" ELSE "False"

(* testvars.get('remainmax', 3600) *)
KeepSeconds(testvars) ==
    IF "remainmax" \in DOMAIN testvars THEN testvars["remainmax"]
    ELSE DEFAULT_KEEP

(* notify() 2722-2727 and raid_notify() 1999-2003, once gather is done *)
FinishSend(st) ==
    LET r == MultiSendResult(st.c.sends)
        kind == st.c.kind
    IN  IF r.raised THEN Raise([st EXCEPT !.c.ms = "raised"], "MultiSendError")
        ELSE LET s1 == [st EXCEPT !.c.ms = "returned", !.c.count = r.count]
                 s2 == IF r.count # 0
                       THEN [s1 EXCEPT !.numsent[kind] = @ + 1]
                       ELSE s1
                 delay == IF r.count # 0 /\ kind = "spawn"
                          THEN KeepSeconds(s2.c.testvars) ELSE 0
             IN  Leave(s2, BoolStr(r.count # 0), delay)

(* _multi_send up to its await: every s.send() is created and handed to    *)
(* gather in one go; with no senders gather is done at once                *)
BeginSend(st) ==
    LET senders == ChainSenders(ChannelOrder, st.c.matched)
        s1 == [st EXCEPT !.c.sends = [i \in 1..Len(senders) |-> "pending"]]
    IN  IF senders = <<>> THEN FinishSend(s1)
        ELSE [s1 EXCEPT !.c.pc = "sending"]

(* `for channel in channels: channel.cooldown.reset()` *)
ResetCooldowns(pr, matched) ==
    [ch \in Channels |-> IF ch \in matched THEN CooldownReset(now) ELSE pr[ch]]

(* the attachments notify() hands to _multi_send: one image when a sender  *)
(* of the matched channels wants attachments, none otherwise               *)
SpawnAttachments(senders) ==
    IF \E i \in 1..Len(senders) : WantAttachments(senders[i])
    THEN <<"image">> ELSE <<>>

(* the calls _multi_send hands to gather:                                  *)
(* (s.send(event, attachments) for s in senders)                           *)
SendCalls(senders, event, attachments) ==
    [i \in 1..Len(senders) |->
        [sender |-> senders[i], event |-> event, attachments |-> attachments]]

(* a notify() that leaves the reset of the cooldowns to a later step, past *)
(* its next suspension                                                     *)
SpawnMatchResetLater(st) ==
    LET dexno == Head(st.c.ev.pokemon_id)
        res(ch) == MatchRules(ch, dexno, st.c.testvars, FALSE,
                              CooldownGet(st.prior[ch], now))
        matched == {ch \in Channels : res(ch).ok /\ res(ch).val}
        s0 == [st EXCEPT !.c.evaluated = TRUE]
    IN  IF \E ch \in Channels : ~res(ch).ok THEN Raise(s0, "KeyError")
        ELSE IF matched = {} THEN Leave(s0, "False", 0)
        ELSE LET s1 == [s0 EXCEPT !.c.matched = matched]
                 senders == ChainSenders(ChannelOrder, matched)
             IN  IF \E i \in 1..Len(senders) : WantAttachments(senders[i])
                 THEN [s1 EXCEPT !.c.pc = "imaging"]
                 ELSE BeginSend(s1)

(* a notify() that resets the cooldown of every channel once one matched *)
SpawnMatchResetAll(st) ==
    LET dexno == Head(st.c.ev.pokemon_id)
        res(ch) == MatchRules(ch, dexno, st.c.testvars, FALSE,
                              CooldownGet(st.prior[ch], now))
        matched == {ch \in Channels : res(ch).ok /\ res(ch).val}
        s0 == [st EXCEPT !.c.evaluated = TRUE]
    IN  IF \E ch \in Channels : ~res(ch).ok THEN Raise(s0, "KeyError")
        ELSE IF matched = {} THEN Leave(s0, "False", 0)
        ELSE LET s1 == [s0 EXCEPT !.c.matched = matched,
                                  !.prior = ResetCooldowns(@, Channels)]
                 senders == ChainSenders(ChannelOrder, matched)
             IN  IF \E i \in 1..Len(senders) : WantAttachments(senders[i])
                 THEN [s1 EXCEPT !.c.pc = "imaging"]
                 ELSE BeginSend(s1)

(* notify() 2700-2717, once testvars is complete *)
SpawnMatch(st) ==
    LET dexno == Head(st.c.ev.pokemon_id)
        res(ch) == MatchRules(ch, dexno, st.c.testvars, FALSE,
                              CooldownGet(st.prior[ch], now))
        matched == {ch \in Channels : res(ch).ok /\ res(ch).val}
        s0 == [st EXCEPT !.c.evaluated = TRUE]
    IN  IF \E ch \in Channels : ~res(ch).ok THEN Raise(s0, "KeyError")
        ELSE IF matched = {} THEN Leave(s0, "False", 0)
        ELSE LET s1 == [s0 EXCEPT !.c.matched = matched,
                                  !.prior = ResetCooldowns(@, matched)]
                 senders == ChainSenders(ChannelOrder, matched)
             IN  IF \E i \in 1..Len(senders) : WantAttachments(senders[i])
                 THEN [s1 EXCEPT !.c.pc = "imaging"]
                 ELSE BeginSend(s1)

(* a raid_notify() that resets the cooldown of the channels it matched,    *)
(* as notify() does                                                        *)
RaidMatchReset(st) ==
    LET testvars == MakeRaidTestVars(st.c.ev)
        res(ch) == MatchRaidRules(ch, testvars)
        matched == {ch \in Channels : res(ch).ok /\ res(ch).val}
        s0 == [st EXCEPT !.c.evaluated = TRUE, !.c.testvars = testvars]
    IN  IF \E ch \in Channels : ~res(ch).ok THEN Raise(s0, "KeyError")
        ELSE IF matched = {} THEN Leave(s0, "False", 0)
        ELSE BeginSend([s0 EXCEPT !.c.matched = matched,
                                  !.prior = ResetCooldowns(@, matched)])

(* raid_notify() 1979-2000: a KeyError that leaves _match_raid_rules       *)
(* leaves the list comprehension and the call                              *)
RaidMatch(st) ==
    LET testvars == MakeRaidTestVars(st.c.ev)
        res(ch) == MatchRaidRules(ch, testvars)
        matched == {ch \in Channels : res(ch).ok /\ res(ch).val}
        s0 == [st EXCEPT !.c.evaluated = TRUE, !.c.testvars = testvars]
    IN  IF \E ch \in Channels : ~res(ch).ok THEN Raise(s0, "KeyError")
        ELSE IF matched = {} THEN Leave(s0, "False", 0)
        ELSE BeginSend([s0 EXCEPT !.c.matched = matched])

(* testvars.update(remain vars) *)
WithRemain(st, remainmin, remainmax) ==
    [st EXCEPT !.c.testvars = Update(@, MakeRemainVars(remainmin, remainmax))]

(* SpawnNotifier.eligible: the optimistic match of the channels in order;  *)
(* any() stops at the first channel that matches, a KeyError that escapes  *)
(* _match_rules escapes eligible                                           *)
RECURSIVE AnyOptimistic(_, _, _)
AnyOptimistic(order, dexno, testvars) ==
    IF order = <<>> THEN "False"
    ELSE LET r == MatchRules(Head(order), dexno, testvars, TRUE,
                             CooldownGet(prior[Head(order)], now))
         IN  IF ~r.ok THEN "KeyError"
             ELSE IF r.val THEN "True"
             ELSE AnyOptimistic(Tail(order), dexno, testvars)

(* an eligible() without its check of the handled set *)
EligibleResultNoCheck(pokemon) ==
    AnyOptimistic(ChannelOrder, Head(pokemon.pokemon_id),
        Update(MakeTestVars(pokemon, ranks, rareness),
               MakeRemainVars(pokemon.tth, None)))

EligibleResult(pokemon) ==
    IF InHandled(pokemon.encounter_id, handled) THEN "False"
    ELSE AnyOptimistic(ChannelOrder, Head(pokemon.pokemon_id),
            Update(MakeTestVars(pokemon, ranks, rareness),
                   MakeRemainVars(pokemon.tth, None)))

(* an eligible() that enters the encounter into the handled set, as        *)
(* notify() does, when it answers True                                     *)
EligibleStepConsumes(st, pokemon) ==
    LET r == EligibleResult(pokemon)
    IN  IF r = "KeyError"
        THEN [st EXCEPT !.c.pc = "done", !.c.ret = "-", !.c.exc = "KeyError"]
        ELSE [st EXCEPT !.c.pc = "done", !.c.ret = r,
                        !.handled = IF r = "True"
                                    THEN @ \cup {pokemon.encounter_id} ELSE @]

(* eligible() as a step: it returns its result (or raises the KeyError)    *)
(* and assigns to nothing else                                             *)
EligibleStep(st, pokemon) ==
    LET r == EligibleResult(pokemon)
    IN  IF r = "KeyError"
        THEN [st EXCEPT !.c.pc = "done", !.c.ret = "-", !.c.exc = "KeyError"]
        ELSE [st EXCEPT !.c.pc = "done", !.c.ret = r]

-----------------------------------------------------------------------------
(* A channel under configuration: NotifyConfig.spawn / raid / spawn_law    *)
(* store their arguments, ChannelMap._add_configured_channels hands them   *)
(* to Channel.add_spawn_rule / add_raid_rule, and a match is run on the    *)
(* channel they built                                                      *)

MaxRules == 2       \* the rules registered on the channel

(* Channel.__init__ *)
NewChannel ==
    [spawnlaw |-> <<>>,
     spawnrules |-> [species |-> <<>>, fallback |-> <<>>],
     raidrules |-> [species |-> <<>>, fallback |-> <<>>]]

(* no match has been run *)
NoProbeMatch == [kind |-> "none", ev |-> NoEvent, optimism |-> FALSE, result |-> "-"]

NoProbe ==
    [chan |-> NewChannel, nrules |-> 0, match |-> NoProbeMatch,
     spawnargs |-> <<>>, built |-> FALSE]

(* the rules a config file passes to NOTIFY.spawn *)
SpawnRuleChoices ==
    { RuleBool(TRUE), RuleBool(FALSE),
      RuleTests(<<Test(Var("iv"), ">", Const(80))>>),
      RuleTests(<<Test(Var("score"), "==", Const(16))>>),
      RuleTests(<<Test(Var("remain"), ">=", Const(TIME_REQUIRED))>>),
      LegacyRule }

(* the rules a config file passes to NOTIFY.raid *)
RaidRuleChoices ==
    { RuleBool(TRUE), RuleBool(FALSE),
      RuleTests(<<Test(Var("tier"), ">=", Const(3))>>) }

(* the tests a config file passes to NOTIFY.spawn_law *)
LawChoices ==
    { <<Test(Var("remain"), ">", Const(0))>>,
      <<Test(Var("iv"), ">", Const(80))>>,
      <<Test(Var("remain"), ">", Const(0)), Test(Var("iv"), ">", Const(80))>> }

(* the species argument: pokedex number 1, or None for the Ellipsis *)
SpeciesKeys == {Some(1), None}

(* the rules argument: no rule or one rule per call *)
RuleArgs(choices) == {<<>>} \cup {<<r>> : r \in choices}

(* a NotifyConfig.spawn / raid that stores the rules as they were given *)
NotifyConfigRulesAsGiven(rules) == rules

(* NotifyConfig.spawn / raid: `if not rules: rules = [True]` *)
NotifyConfigRules(rules) == IF rules = <<>> THEN <<RuleBool(TRUE)>> ELSE rules

(* Channel._add_species_rule: rulemap.setdefault(key, list()).append(rule) *)
AddSpeciesRule(rulemap, key, rule) ==
    IF key = None
    THEN [rulemap EXCEPT !.fallback = Append(@, rule)]
    ELSE LET k == Head(key)
             sp == rulemap.species
             old == IF k \in DOMAIN sp THEN sp[k] ELSE <<>>
         IN  [rulemap EXCEPT !.species =
                 [d \in DOMAIN sp \cup {k} |->
                     IF d = k THEN Append(old, rule) ELSE sp[d]]]

(* NotifyConfig.spawn with these rules, followed by the loop of            *)
(* _add_configured_channels over the stored rules                          *)
RECURSIVE AddRules(_, _, _)
AddRules(rulemap, key, rules) ==
    IF rules = <<>> THEN rulemap
    ELSE AddRules(AddSpeciesRule(rulemap, key, Head(rules)), key, Tail(rules))

RegisterRules(rulemap, key, rules) ==
    AddRules(rulemap, key, NotifyConfigRules(rules))

(* the result of a match as the caller of _match_rules sees it *)
ResultStr(r) == IF ~r.ok THEN "KeyError" ELSE IF r.val THEN "True" ELSE "False"

(* the testvars eligible() builds for a pokemon *)
EligibleTestVars(pokemon) ==
    Update(MakeTestVars(pokemon, ranks, rareness),
           MakeRemainVars(pokemon.tth, None))

(* cooldown.get() of the channel under configuration *)
ProbeCooldown == CooldownGet(CooldownInit(0), now)

-----------------------------------------------------------------------------
(* The event loop: every action is one run of a coroutine or callback      *)
(* from one suspension point to the next                                   *)

Init ==
    /\ handled = {}
    /\ timers = {}
    /\ now = 0
    /\ prior = [ch \in Channels |-> CooldownInit(0)]
    /\ ranks = MakeRankDict(Ranking)
    /\ rareness = MakeRarenessDict(Ranking)
    /\ numsent = [spawn |-> 0, raid |-> 0]
    /\ call = [p \in Calls |-> IdleCall]
    /\ probe = NoProbe
    /\ conf = DefaultConf
    /\ refresh = InitRefresh(DefaultConf)
    /\ cooldown = MakeCooldown

(* Notifier.get_sent_count *)
SentCount == numsent.spawn + numsent.raid

(* a new call may start while the calls in flight cannot take the sent     *)
(* count beyond MaxSent                                                    *)
InFlight == Cardinality({p \in Calls : call[p].pc \notin {"idle", "done"}})
MayStart == SentCount + InFlight < MaxSent

(* a new call takes the first free task slot *)
FreeSlot(p) ==
    /\ call[p].pc = "idle"
    /\ \A q \in Calls : call[q].pc = "idle" => ~(q < p)

Commit(p, st) ==
    /\ call' = [call EXCEPT ![p] = st.c]
    /\ handled' = st.handled
    /\ timers' = st.timers
    /\ prior' = st.prior
    /\ numsent' = st.numsent
    /\ UNCHANGED <<now, ranks, rareness, probe, conf, refresh, cooldown>>

(* notify() from its call to its first suspension: the handled check, the  *)
(* `with` entry, _make_test_vars, and, when time_till_hidden is known (so  *)
(* that _diligent_make_remain_vars does not suspend), the matching         *)
NotifyStart(p, pokemon) ==
    /\ FreeSlot(p)
    /\ MayStart
    /\ LET id == pokemon.encounter_id
           st == State([IdleCall EXCEPT !.kind = "spawn", !.ev = pokemon])
           entered == ManagerEnter(handled, id)
       IN  IF InHandled(id, handled)
           THEN Commit(p, [st EXCEPT !.c.pc = "done", !.c.ret = "False"])
           ELSE IF entered.raised
           THEN Commit(p, [st EXCEPT !.c.pc = "done", !.c.ret = "None",
                                     !.c.exc = "ValueError"])
           ELSE LET s1 == [st EXCEPT !.handled = entered.items,
                                     !.c.testvars = MakeTestVars(pokemon, ranks, rareness)]
                IN  IF pokemon.tth = None
                    THEN Commit(p, [s1 EXCEPT !.c.pc = "estimating"])
                    ELSE Commit(p, SpawnMatch(WithRemain(s1, pokemon.tth, None)))

(* run_threaded(_guess_time_left) has ended: notify() resumes with the     *)
(* estimated time range                                                    *)
Estimated(p, timerange) ==
    /\ call[p].pc = "estimating"
    /\ Commit(p, SpawnMatch(WithRemain(State(call[p]),
                                       Some(timerange[1]), Some(timerange[2]))))

(* _SpawnImager.create has ended: notify() resumes with the attachment,    *)
(* or with the exception it raised                                         *)
ImageDone(p, ok) ==
    /\ call[p].pc = "imaging"
    /\ IF ok THEN Commit(p, BeginSend(State(call[p])))
       ELSE Commit(p, Raise(State(call[p]), "ImageError"))

(* one sender's send() ends *)
SendComplete(p, i, outcome) ==
    /\ call[p].pc = "sending"
    /\ call[p].kind \in {"spawn", "raid"}
    /\ i \in 1..Len(call[p].sends)
    /\ call[p].sends[i] = "pending"
    /\ call' = [call EXCEPT ![p].sends[i] = outcome]
    /\ UNCHANGED <<handled, timers, now, prior, ranks, rareness, numsent, probe, conf, refresh, cooldown>>

(* gather is done: _multi_send and then the orchestrator resume *)
MultiSendReturn(p) ==
    /\ call[p].pc = "sending"
    /\ call[p].kind \in {"spawn", "raid"}
    /\ GatherDone(call[p].sends)
    /\ Commit(p, FinishSend(State(call[p])))

(* raid_notify() from its call to its first suspension *)
RaidStart(p, raid) ==
    /\ FreeSlot(p)
    /\ MayStart
    /\ Commit(p, RaidMatch(State([IdleCall EXCEPT !.kind = "raid", !.ev = raid])))

(* the caller has taken the call's result *)
Return(p) ==
    /\ call[p].pc = "done"
    /\ call' = [call EXCEPT ![p] = IdleCall]
    /\ UNCHANGED <<handled, timers, now, prior, ranks, rareness, numsent, probe, conf, refresh, cooldown>>

(* SpawnNotifier.eligible: it runs from call to return without suspending *)
Eligible(p, pokemon) ==
    /\ FreeSlot(p)
    /\ Commit(p, EligibleStep(State([IdleCall EXCEPT !.kind = "eligible",
                                                      !.ev = pokemon]), pokemon))

(* a call_later callback runs: self._items.discard(item) *)
TimerFire(t) ==
    /\ t \in timers
    /\ t.left = 0
    /\ handled' = handled \ {t.item}
    /\ timers' = timers \ {t}
    /\ UNCHANGED <<now, prior, ranks, rareness, numsent, call, probe, conf, refresh, cooldown>>

(* the clock advances by one tick *)
Tick ==
    /\ now < MaxTime
    /\ now' = now + 1
    /\ timers' = {[item |-> t.item, left |-> IF t.left > 0 THEN t.left - 1 ELSE 0] :
                    t \in timers}
    /\ UNCHANGED <<handled, prior, ranks, rareness, numsent, call, probe, conf, refresh, cooldown>>

Next ==
    \/ \E p \in Calls, pokemon \in Pokemons : NotifyStart(p, pokemon)
    \/ \E p \in Calls, timerange \in TimeRanges : Estimated(p, timerange)
    \/ \E p \in Calls, ok \in BOOLEAN : ImageDone(p, ok)
    \/ \E p \in Calls, i \in 1..2, outcome \in OrchestratorOutcomes :
            SendComplete(p, i, outcome)
    \/ \E p \in Calls : MultiSendReturn(p)
    \/ \E p \in FirstSlot, raid \in Raids : RaidStart(p, raid)
    \/ \E p \in Calls : Return(p)
    \/ \E p \in FirstSlot, pokemon \in Pokemons : Eligible(p, pokemon)
    \/ \E t \in timers : TimerFire(t)
    \/ Tick

Spec == Init /\ [][Next]_vars

-----------------------------------------------------------------------------
(* _multi_send on its own: any list of up to MaxSenders senders, each      *)
(* send() ending in any of the ways of Outcomes                            *)

MaxSenders == 3

FanoutStart(n) ==
    /\ call[1].pc = "idle"
    /\ LET c == [IdleCall EXCEPT !.kind = "fanout",
                                 !.sends = [i \in 1..n |-> "pending"]]
           r == MultiSendResult(c.sends)
       IN  call' = [call EXCEPT ![1] =
                IF n = 0
                THEN [c EXCEPT !.pc = "done", !.count = r.count,
                               !.ms = IF r.raised THEN "raised" ELSE "returned"]
                ELSE [c EXCEPT !.pc = "sending"]]
    /\ UNCHANGED <<handled, timers, now, prior, ranks, rareness, numsent, probe, conf, refresh, cooldown>>

FanoutComplete(i, outcome) ==
    /\ call[1].pc = "sending"
    /\ i \in 1..Len(call[1].sends)
    /\ call[1].sends[i] = "pending"
    /\ call' = [call EXCEPT ![1].sends[i] = outcome]
    /\ UNCHANGED <<handled, timers, now, prior, ranks, rareness, numsent, probe, conf, refresh, cooldown>>

FanoutReturn ==
    /\ call[1].pc = "sending"
    /\ GatherDone(call[1].sends)
    /\ LET r == MultiSendResult(call[1].sends)
       IN  call' = [call EXCEPT ![1].pc = "done",
                                ![1].count = r.count,
                                ![1].ms = IF r.raised THEN "raised" ELSE "returned"]
    /\ UNCHANGED <<handled, timers, now, prior, ranks, rareness, numsent, probe, conf, refresh, cooldown>>

FanoutNext ==
    \/ \E n \in 0..MaxSenders : FanoutStart(n)
    \/ \E i \in 1..MaxSenders, outcome \in Outcomes : FanoutComplete(i, outcome)
    \/ FanoutReturn
    \/ Return(1)

SpecFanout == Init /\ [][FanoutNext]_vars

-----------------------------------------------------------------------------
(* Rule matching on its own: a channel is configured with up to MaxRules   *)
(* rules and a law, and then one spawn or raid is matched against it       *)

Configuring == probe.match.kind = "none"

(* NOTIFY.spawn(key, rules...) *)
ConfigSpawn(key, rules) ==
    /\ Configuring
    /\ probe.nrules + Len(NotifyConfigRules(rules)) <= MaxRules
    /\ probe' = [probe EXCEPT
            !.chan.spawnrules = RegisterRules(@, key, rules),
            !.nrules = @ + Len(NotifyConfigRules(rules))]
    /\ UNCHANGED <<handled, timers, now, prior, ranks, rareness, numsent, call, conf, refresh, cooldown>>

(* NOTIFY.raid(key, rules...) *)
ConfigRaid(key, rules) ==
    /\ Configuring
    /\ probe.nrules + Len(NotifyConfigRules(rules)) <= MaxRules
    /\ probe' = [probe EXCEPT
            !.chan.raidrules = RegisterRules(@, key, rules),
            !.nrules = @ + Len(NotifyConfigRules(rules))]
    /\ UNCHANGED <<handled, timers, now, prior, ranks, rareness, numsent, call, conf, refresh, cooldown>>

(* NOTIFY.spawn_law(tests...): `channel.spawnlaw = rules[0]`, each call    *)
(* overriding the one before                                               *)
ConfigSpawnLaw(tests) ==
    /\ Configuring
    /\ probe' = [probe EXCEPT !.chan.spawnlaw = tests]
    /\ UNCHANGED <<handled, timers, now, prior, ranks, rareness, numsent, call, conf, refresh, cooldown>>

(* _match_rules(channel, dexno, testvars, optimism) on the testvars of     *)
(* eligible() for this pokemon                                             *)
ProbeSpawn(pokemon, optimism) ==
    /\ Configuring
    /\ probe' = [probe EXCEPT !.match =
            [kind |-> "spawn", ev |-> pokemon, optimism |-> optimism,
             result |-> ResultStr(MatchRulesOf(probe.chan.spawnlaw,
                                    probe.chan.spawnrules,
                                    Head(pokemon.pokemon_id),
                                    EligibleTestVars(pokemon),
                                    optimism, ProbeCooldown))]]
    /\ UNCHANGED <<handled, timers, now, prior, ranks, rareness, numsent, call, conf, refresh, cooldown>>

(* _match_raid_rules(channel, testvars) on the testvars of this raid *)
ProbeRaid(raid) ==
    /\ Configuring
    /\ probe' = [probe EXCEPT !.match =
            [kind |-> "raid", ev |-> raid, optimism |-> FALSE,
             result |-> ResultStr(MatchRaidRulesOf(probe.chan.raidrules,
                                                   MakeRaidTestVars(raid)))]]
    /\ UNCHANGED <<handled, timers, now, prior, ranks, rareness, numsent, call, conf, refresh, cooldown>>

RulesNext ==
    \/ \E key \in SpeciesKeys, rules \in RuleArgs(SpawnRuleChoices) :
            ConfigSpawn(key, rules)
    \/ \E key \in SpeciesKeys, rules \in RuleArgs(RaidRuleChoices) :
            ConfigRaid(key, rules)
    \/ \E tests \in LawChoices : ConfigSpawnLaw(tests)
    \/ \E pokemon \in Pokemons, optimism \in BOOLEAN : ProbeSpawn(pokemon, optimism)
    \/ \E raid \in Raids : ProbeRaid(raid)

SpecRules == Init /\ [][RulesNext]_vars

-----------------------------------------------------------------------------
(* The handled set on its own: notify() under any channels and senders.    *)
(* Between the entry of its `with` block and its end the call is           *)
(* "handling"; which of its ends it takes, with which results of the       *)
(* senders and which estimate of the remaining time, is chosen freely      *)

EncounterIds == {1, 2}

(* testvars['remainmax'] at the end of the call, in ticks; None when the   *)
(* testvars hold no remain variables                                       *)
RemainEstimates == {None, Some(-1), Some(0), Some(1)}

(* the results of the senders of the matched channels *)
SendResults ==
    { <<"ok">>, <<"SenderError">>, <<"ok", "SenderError">>, <<"KeyErrorOther">> }

(* notify() up to the entry of the `with` block *)
HandleStart(p, id) ==
    /\ FreeSlot(p)
    /\ MayStart
    /\ LET st == State([IdleCall EXCEPT !.kind = "spawn",
                                        !.ev = Pokemon(id, 1, None, None)])
           entered == ManagerEnter(handled, id)
       IN  IF InHandled(id, handled)
           THEN Commit(p, [st EXCEPT !.c.pc = "done", !.c.ret = "False"])
           ELSE IF entered.raised
           THEN Commit(p, [st EXCEPT !.c.pc = "done", !.c.ret = "None",
                                     !.c.exc = "ValueError"])
           ELSE Commit(p, [st EXCEPT !.handled = entered.items,
                                     !.c.pc = "handling"])

(* `if not channels: return False` *)
HandleNoMatch(p) ==
    /\ call[p].pc = "handling"
    /\ Commit(p, Leave([State(call[p]) EXCEPT !.c.evaluated = TRUE], "False", 0))

(* an exception leaves the `with` block: from the estimate, the rules, the *)
(* message variables or the attachment                                     *)
HandleRaise(p) ==
    /\ call[p].pc = "handling"
    /\ Commit(p, Raise(State(call[p]), "Exception"))

(* _multi_send has gathered these results, under this estimate *)
HandleSent(p, results, remainmax) ==
    /\ call[p].pc = "handling"
    /\ Commit(p, FinishSend([State(call[p]) EXCEPT
            !.c.evaluated = TRUE,
            !.c.matched = {"default"},
            !.c.testvars = MakeRemainVars(remainmax, None),
            !.c.sends = results]))

HandledNext ==
    \/ \E p \in Calls, id \in EncounterIds : HandleStart(p, id)
    \/ \E p \in Calls : HandleNoMatch(p)
    \/ \E p \in Calls : HandleRaise(p)
    \/ \E p \in Calls, results \in SendResults, remainmax \in RemainEstimates :
            HandleSent(p, results, remainmax)
    \/ \E p \in Calls : Return(p)
    \/ \E t \in timers : TimerFire(t)
    \/ Tick

SpecHandled == Init /\ [][HandledNext]_vars

-----------------------------------------------------------------------------
(* The stored configuration: NotifyConfig.spawn and spawn_law only append  *)
(* their arguments to the channel's spawnargs; the channel is built from   *)
(* the whole list when the ChannelMap is constructed, and spawns are       *)
(* matched against the channel that was built                              *)

MaxCalls == 3       \* the spawn and spawn_law calls of a config file

(* _RuleArgs(species, rules, lineno) as spawn stores it *)
SpawnArgs(key, rules) == [law |-> FALSE, species |-> key, rules |-> rules]

(* _RuleArgs(None, [tests], lineno) as spawn_law stores it *)
LawArgs(tests) == [law |-> TRUE, species |-> None, rules |-> <<tests>>]

(* a loop body that keeps the first law it meets *)
AddConfiguredArgFirstLaw(chan, arg) ==
    IF arg.law
    THEN IF chan.spawnlaw = <<>>
         THEN [chan EXCEPT !.spawnlaw = arg.rules[1]] ELSE chan
    ELSE [chan EXCEPT !.spawnrules = AddRules(@, arg.species, arg.rules)]

(* the body of the loop over chanconf.spawnargs: a law replaces the        *)
(* channel's law, every other entry adds its rules                         *)
AddConfiguredArg(chan, arg) ==
    IF arg.law
    THEN [chan EXCEPT !.spawnlaw = arg.rules[1]]
    ELSE [chan EXCEPT !.spawnrules = AddRules(@, arg.species, arg.rules)]

(* the loop over chanconf.spawnargs, in the order of the calls *)
RECURSIVE AddConfiguredSpawn(_, _)
AddConfiguredSpawn(chan, spawnargs) ==
    IF spawnargs = <<>> THEN chan
    ELSE AddConfiguredSpawn(AddConfiguredArg(chan, Head(spawnargs)),
                            Tail(spawnargs))

Storing == ~probe.built /\ Len(probe.spawnargs) < MaxCalls

(* NOTIFY.spawn(key, rules...) *)
StoreSpawn(key, rules) ==
    /\ Storing
    /\ probe' = [probe EXCEPT !.spawnargs =
            Append(@, SpawnArgs(key, NotifyConfigRules(rules)))]
    /\ UNCHANGED <<handled, timers, now, prior, ranks, rareness, numsent, call, conf, refresh, cooldown>>

(* NOTIFY.spawn_law(tests...), with or without tests *)
StoreSpawnLaw(tests) ==
    /\ Storing
    /\ probe' = [probe EXCEPT !.spawnargs = Append(@, LawArgs(tests))]
    /\ UNCHANGED <<handled, timers, now, prior, ranks, rareness, numsent, call, conf, refresh, cooldown>>

(* ChannelMap._add_configured_channels for the channel *)
AddConfiguredChannels ==
    /\ ~probe.built
    /\ probe' = [probe EXCEPT
            !.chan = AddConfiguredSpawn(NewChannel, probe.spawnargs),
            !.built = TRUE]
    /\ UNCHANGED <<handled, timers, now, prior, ranks, rareness, numsent, call, conf, refresh, cooldown>>

(* _match_rules on the channel that was built *)
MatchBuilt(pokemon, optimism) ==
    /\ probe.built
    /\ ProbeSpawn(pokemon, optimism)

ConfigNext ==
    \/ \E key \in SpeciesKeys, rules \in RuleArgs(SpawnRuleChoices) :
            StoreSpawn(key, rules)
    \/ \E tests \in LawChoices \cup {<<>>} : StoreSpawnLaw(tests)
    \/ AddConfiguredChannels
    \/ \E pokemon \in Pokemons, optimism \in BOOLEAN : MatchBuilt(pokemon, optimism)

SpecConfig == Init /\ [][ConfigNext]_vars

-----------------------------------------------------------------------------
(* A _Cooldown on its own: constructed with any busy >= idle and any       *)
(* duration, then reset and read while the clock advances                  *)

MaxLevel == 3       \* busy and idle values
MaxDuration == 2    \* cooldown durations, in ticks

InitCooldown ==
    /\ handled = {}
    /\ timers = {}
    /\ now = 0
    /\ prior = [ch \in Channels |-> CooldownInit(0)]
    /\ ranks = MakeRankDict(Ranking)
    /\ rareness = MakeRarenessDict(Ranking)
    /\ numsent = [spawn |-> 0, raid |-> 0]
    /\ call = [p \in Calls |-> IdleCall]
    /\ probe = NoProbe
    /\ conf = DefaultConf
    /\ refresh = InitRefresh(DefaultConf)
    /\ \E busy \in 0..MaxLevel, idle \in 0..MaxLevel, duration \in 0..MaxDuration :
            /\ busy >= idle
            /\ cooldown = NewCooldown(busy, idle, duration, 0)

(* _Cooldown.reset *)
ResetStep ==
    /\ cooldown' = [cooldown EXCEPT !.prior2 = 2 * now, !.got = None, !.at = 0,
                                   !.wasreset = TRUE]
    /\ UNCHANGED <<handled, timers, now, prior, ranks, rareness, numsent, call,
                   probe, conf, refresh>>

(* _Cooldown.get *)
GetStep ==
    /\ cooldown' = [cooldown EXCEPT
            !.got = Some(CooldownValue(cooldown, now)), !.at = now]
    /\ UNCHANGED <<handled, timers, now, prior, ranks, rareness, numsent, call,
                   probe, conf, refresh>>

CooldownNext == ResetStep \/ GetStep \/ Tick

SpecCooldown == InitCooldown /\ [][CooldownNext]_vars

-----------------------------------------------------------------------------
(* The rank and rareness tables: SpawnNotifier._init_ranks builds them     *)
(* under the settings of the config file, from NOTIFY_IDS or from the      *)
(* ranking of the database, and with a database ranking _refresh_ranks     *)
(* rebuilds them again and again.  The rareness table holds fractions.     *)

MaxRanking == 3     \* the length of a ranking; the values of the limits

Species == {1, 2, 3}

(* the rankings of at most MaxRanking species, each species once *)
Rankings ==
    {r \in UNION {[1..n -> Species] : n \in 0..MaxRanking} : ~HasDuplicate(r)}

(* what a database read may hand back: a ranking, or a ranking that names  *)
(* its first species once more at the end                                  *)
ReadRankings ==
    Rankings \cup {Append(r, r[1]) : r \in {q \in Rankings :
                                        q # <<>> /\ Len(q) < MaxRanking}}

(* the settings of a config file: a ranking limit with or without an       *)
(* always-notify head, or a list of species, or neither; with or without   *)
(* the legacy head-set and an override                                     *)
Confs ==
    { [NOTIFY_IDS |-> ids, NOTIFY_RANKING |-> nr, ALWAYS_NOTIFY |-> an,
       EMULATE_LEGACY_RARITY_BUGS |-> em, ALWAYS_NOTIFY_IDS |-> IF em THEN {1} ELSE {},
       RARITY_OVERRIDE |-> ov] :
        ids \in {None} \cup {Some(r) : r \in Rankings \ {<<>>}},
        nr \in 0..MaxRanking, an \in 0..MaxRanking, em \in BOOLEAN,
        ov \in {<<>>, [d \in {2} |-> [num |-> 18, den |-> 20]]} }

(* _add_legacy_rules refuses NOTIFY_RANKING together with NOTIFY_IDS; an   *)
(* ALWAYS_NOTIFY without NOTIFY_RANKING is never read                      *)
ValidConf(cf) ==
    /\ cf.NOTIFY_IDS # None => cf.NOTIFY_RANKING = 0
    /\ cf.NOTIFY_RANKING = 0 => cf.ALWAYS_NOTIFY = 0

InitRanks ==
    /\ handled = {}
    /\ timers = {}
    /\ now = 0
    /\ prior = [ch \in Channels |-> CooldownInit(0)]
    /\ numsent = [spawn |-> 0, raid |-> 0]
    /\ call = [p \in Calls |-> IdleCall]
    /\ probe = NoProbe
    /\ cooldown = MakeCooldown
    /\ conf \in {cf \in Confs : ValidConf(cf)}
    /\ \E ranking \in Rankings :
            /\ conf.NOTIFY_IDS # None => ranking = Head(conf.NOTIFY_IDS)
            /\ refresh = [InitRefresh(conf) EXCEPT !.ranking = ranking]
            /\ ranks = MakeRankDict(ranking)
            /\ rareness = RarenessTable(conf, ranking)

(* the call_later handle fires: _launch_refresh_ranks creates the task,    *)
(* which runs up to its await of the threaded database read                *)
LaunchRefreshRanks ==
    /\ refresh.timers > 0
    /\ refresh' = [refresh EXCEPT !.timers = @ - 1, !.tasks = @ + 1]
    /\ UNCHANGED <<handled, timers, now, prior, ranks, rareness, numsent, call,
                   probe, conf, cooldown>>

(* a refresh after which nothing is scheduled when the read failed *)
RescheduleOnSuccess(rf, failed) ==
    IF failed THEN [rf EXCEPT !.tasks = @ - 1]
    ELSE [rf EXCEPT !.tasks = @ - 1, !.timers = @ + 1]

(* the end of _refresh_ranks: call_later of the next refresh *)
Reschedule(rf, failed) == [rf EXCEPT !.tasks = @ - 1, !.timers = @ + 1]

(* the threaded read raises: the exception is logged, the tables stay *)
RefreshReadFails ==
    /\ refresh.tasks > 0
    /\ refresh' = [Reschedule(refresh, TRUE) EXCEPT !.last = "failed"]
    /\ UNCHANGED <<handled, timers, now, prior, ranks, rareness, numsent, call,
                   probe, conf, cooldown>>

(* the threaded read returns a ranking: _ranks is assigned, then           *)
(* _make_rareness_dict either raises on a duplicate, which is logged, or   *)
(* gives the table that is assigned to _rareness                           *)
RefreshRanks(ranking) ==
    /\ refresh.tasks > 0
    /\ ranks' = MakeRankDict(ranking)
    /\ rareness' = IF HasDuplicate(ranking) THEN rareness
                   ELSE RarenessTable(conf, ranking)
    /\ refresh' = [Reschedule(refresh, HasDuplicate(ranking)) EXCEPT
            !.last = IF HasDuplicate(ranking) THEN "failed" ELSE "ok",
            !.ranking = ranking]
    /\ UNCHANGED <<handled, timers, now, prior, numsent, call, probe, conf,
                   cooldown>>

RanksNext ==
    \/ LaunchRefreshRanks
    \/ RefreshReadFails
    \/ \E ranking \in ReadRankings : RefreshRanks(ranking)

SpecRanks == InitRanks /\ [][RanksNext]_vars

(* __init__ under the default settings, with the database ranking *)
InitDefaultRanks ==
    /\ InitRanks
    /\ conf = DefaultConf
    /\ refresh.ranking = Ranking

(* the refresh under the default settings, from the database ranking: the *)
(* event loop runs every timer that is due and every task whose read has   *)
(* ended                                                                   *)
SpecRefresh ==
    /\ InitDefaultRanks
    /\ [][RanksNext]_vars
    /\ WF_vars(LaunchRefreshRanks)
    /\ WF_vars(RefreshReadFails \/ \E ranking \in ReadRankings : RefreshRanks(ranking))

-----------------------------------------------------------------------------
(* The channel map as ChannelMap.__init__ builds it: the default channel   *)
(* with the rules of the legacy settings, then the channels and rules of   *)
(* the NotifyConfig, the default channel among them.  A spawn is then      *)
(* matched against every channel, on the testvars notify() builds.         *)

MaxStored == 2      \* the NOTIFY.spawn calls of a config file

ChannelNames == {"default", "named"}

(* the legacy settings of a config file; NOTIFY_RANKING 0 stands for None, *)
(* OVERRIDE_IDS for the keys of RARITY_OVERRIDE, HAS_MINIMUM_SCORE for     *)
(* hasattr(conf, 'MINIMUM_SCORE')                                          *)
LegacyConfs ==
    { [NEVER_NOTIFY_IDS |-> nv, ALWAYS_NOTIFY_IDS |-> al, NOTIFY_RANKING |-> nr,
       NOTIFY_IDS |-> None, ALWAYS_NOTIFY |-> an, IGNORE_RARITY |-> ir,
       IGNORE_IVS |-> ii, EMULATE_LEGACY_RARITY_BUGS |-> em,
       OVERRIDE_IDS |-> IF em THEN {2} ELSE {}, HAS_MINIMUM_SCORE |-> hm] :
        nv \in {{}, {1}}, al \in {{}, {1}, {2}}, nr \in {0, 2}, an \in {0, 1},
        ir \in BOOLEAN, ii \in BOOLEAN, em \in BOOLEAN, hm \in BOOLEAN }

(* settings that differ in what _add_legacy_rules reads: ALWAYS_NOTIFY is  *)
(* read with NOTIFY_RANKING only, IGNORE_IVS without IGNORE_RARITY only,   *)
(* EMULATE_LEGACY_RARITY_BUGS with IGNORE_RARITY only, and all three with  *)
(* MINIMUM_SCORE only                                                      *)
ValidLegacy(cf) ==
    /\ cf.NOTIFY_RANKING = 0 => cf.ALWAYS_NOTIFY = 0
    /\ cf.IGNORE_RARITY => ~cf.IGNORE_IVS
    /\ cf.EMULATE_LEGACY_RARITY_BUGS => cf.IGNORE_RARITY
    /\ ~cf.HAS_MINIMUM_SCORE => ~cf.IGNORE_RARITY /\ ~cf.IGNORE_IVS

(* Channel.add_spawn_rule(species, rule) for a collection of pokedex       *)
(* numbers: the rule is appended to the list of each of them               *)
AddSpawnRuleAll(rulemap, ids, rule) ==
    LET sp == rulemap.species
    IN  [rulemap EXCEPT !.species =
            [d \in DOMAIN sp \cup ids |->
                IF d \in ids
                THEN Append(IF d \in DOMAIN sp THEN sp[d] ELSE <<>>, rule)
                ELSE sp[d]]]

(* _add_legacy_rule: the LegacySpawnTests that are not None, as one rule;  *)
(* rank is <<>> for None                                                   *)
LegacySpawnTests(rank, score, time) == RuleTests(rank \o <<score, time>>)

(* ranklimit: NOTIFY_RANKING or len(NOTIFY_IDS or ALWAYS_NOTIFY_IDS) or    *)
(* None, 0 standing for None                                               *)
RankLimit(cf) ==
    IF cf.NOTIFY_RANKING # 0 THEN cf.NOTIFY_RANKING
    ELSE IF cf.NOTIFY_IDS # None /\ Head(cf.NOTIFY_IDS) # <<>>
    THEN Len(Head(cf.NOTIFY_IDS))
    ELSE Cardinality(cf.ALWAYS_NOTIFY_IDS)

(* the rules of _add_legacy_rules that depend on conf.MINIMUM_SCORE *)
AddScoreRules(rulemap, cf) ==
    LET time == Test(Var("remain"), ">=", Const(TIME_REQUIRED))
        alt == Test(Var("margin"), "==", Const(0))
    IN  IF cf.IGNORE_RARITY
        THEN LET limit == RankLimit(cf)
                 rank == IF limit # 0
                         THEN <<Test(Var("rank"), "<", Const(limit))>> ELSE <<>>
                 score == Test(Var("ivfrac"), ">=", Var("cooldown"))
                 r1 == AddSpeciesRule(rulemap, None,
                                      LegacySpawnTests(rank, score, time))
             IN  IF ~cf.EMULATE_LEGACY_RARITY_BUGS THEN r1
                 ELSE LET r2 == AddSpeciesRule(r1, None,
                                      LegacySpawnTests(rank, score, alt))
                      IN  IF limit = 0 THEN r2
                          ELSE AddSpawnRuleAll(
                                   AddSpawnRuleAll(r2, cf.OVERRIDE_IDS,
                                       LegacySpawnTests(<<>>, score, time)),
                                   cf.OVERRIDE_IDS,
                                   LegacySpawnTests(<<>>, score, alt))
        ELSE IF cf.IGNORE_IVS
        THEN AddSpeciesRule(rulemap, None,
                 LegacySpawnTests(<<>>, Test(Var("rareness"), ">=", Var("cooldown")),
                                  time))
        ELSE AddSpeciesRule(rulemap, None,
                 LegacySpawnTests(<<>>, Test(Var("score"), ">=", Var("cooldown")),
                                  time))

(* the wildcard rule of ALWAYS_NOTIFY and the score rules, 1565-1613 *)
AddRankingRules(rulemap, cf) ==
    LET r3 == IF cf.ALWAYS_NOTIFY # 0 /\ cf.NOTIFY_RANKING # 0
              THEN AddSpeciesRule(rulemap, None,
                       RuleTests(<<Test(Var("rank"), "<",
                                        Const(cf.ALWAYS_NOTIFY))>>))
              ELSE rulemap
    IN  IF cf.HAS_MINIMUM_SCORE THEN AddScoreRules(r3, cf) ELSE r3

(* a _add_legacy_rules without the always-notify rule of 1563 *)
AddLegacyRulesNoAlways(chan, cf) ==
    IF cf.NOTIFY_RANKING = 0 /\ cf.NOTIFY_IDS = None /\ cf.ALWAYS_NOTIFY_IDS = {}
    THEN chan
    ELSE [chan EXCEPT !.spawnrules =
            AddRankingRules(
                AddSpawnRuleAll(chan.spawnrules, cf.NEVER_NOTIFY_IDS,
                                RuleBool(FALSE)), cf)]

(* ChannelMap._add_legacy_rules on the default channel: nothing when none  *)
(* of NOTIFY_RANKING, NOTIFY_IDS and ALWAYS_NOTIFY_IDS is set; otherwise   *)
(* False for the never-notify species, True for the always-notify species, *)
(* and the rules that follow                                               *)
AddLegacyRules(chan, cf) ==
    IF cf.NOTIFY_RANKING = 0 /\ cf.NOTIFY_IDS = None /\ cf.ALWAYS_NOTIFY_IDS = {}
    THEN chan
    ELSE [chan EXCEPT !.spawnrules =
            AddRankingRules(
                AddSpawnRuleAll(
                    AddSpawnRuleAll(chan.spawnrules, cf.NEVER_NOTIFY_IDS,
                                    RuleBool(FALSE)),
                    cf.ALWAYS_NOTIFY_IDS, RuleBool(TRUE)), cf)]

(* the rules a config file passes to NOTIFY.spawn in this setting *)
StoredRuleChoices ==
    { RuleBool(TRUE), RuleTests(<<Test(Var("iv"), ">", Const(80))>>) }

(* a config file under construction: the spawnargs of the _ChannelConfig   *)
(* of each channel, then the channels built from them, then the result of  *)
(* _match_rules on each channel for one spawn                              *)
NoChannelMap ==
    [stored |-> [ch \in ChannelNames |-> <<>>], built |-> FALSE,
     chans |-> [ch \in ChannelNames |-> NewChannel],
     ev |-> NoEvent, testvars |-> <<>>,
     results |-> [ch \in ChannelNames |-> "-"]]

InitLegacy ==
    /\ handled = {}
    /\ timers = {}
    /\ now = 0
    /\ prior = [ch \in Channels |-> CooldownInit(0)]
    /\ ranks = MakeRankDict(Ranking)
    /\ rareness = MakeRarenessDict(Ranking)
    /\ numsent = [spawn |-> 0, raid |-> 0]
    /\ call = [p \in Calls |-> IdleCall]
    /\ refresh = InitRefresh(DefaultConf)
    /\ cooldown = MakeCooldown
    /\ conf \in {cf \in LegacyConfs : ValidLegacy(cf)}
    /\ probe = NoChannelMap

StoredCount ==
    Len(probe.stored["default"]) + Len(probe.stored["named"])

(* NOTIFY.spawn(key, rule, channel=ch) *)
LegacyStoreSpawn(ch, key, rule) ==
    /\ ~probe.built
    /\ StoredCount < MaxStored
    /\ probe' = [probe EXCEPT !.stored[ch] = Append(@, SpawnArgs(key, <<rule>>))]
    /\ UNCHANGED <<handled, timers, now, prior, ranks, rareness, numsent, call,
                   conf, refresh, cooldown>>

(* ChannelMap.__init__: _add_default_channel, _add_legacy_rules and        *)
(* _add_configured_channels, in which setdefault finds the default channel *)
(* for the channel name None                                               *)
BuildChannelMap ==
    /\ ~probe.built
    /\ probe' = [probe EXCEPT
            !.chans = [ch \in ChannelNames |->
                AddConfiguredSpawn(
                    IF ch = "default" THEN AddLegacyRules(NewChannel, conf)
                    ELSE NewChannel,
                    probe.stored[ch])],
            !.built = TRUE]
    /\ UNCHANGED <<handled, timers, now, prior, ranks, rareness, numsent, call,
                   conf, refresh, cooldown>>

(* the list comprehension of notify(): _match_rules of every channel on    *)
(* the testvars of _make_test_vars and _make_remain_vars; remain is the    *)
(* time_till_hidden of the pokemon or the estimated range                  *)
LegacyMatch(pokemon, timerange) ==
    /\ probe.built
    /\ probe.ev = NoEvent
    /\ LET testvars ==
             Update(MakeTestVars(pokemon, ranks, rareness),
                    IF pokemon.tth # None THEN MakeRemainVars(pokemon.tth, None)
                    ELSE MakeRemainVars(Some(timerange[1]), Some(timerange[2])))
       IN  probe' = [probe EXCEPT
                !.ev = pokemon,
                !.testvars = testvars,
                !.results = [ch \in ChannelNames |->
                    ResultStr(MatchRulesOf(probe.chans[ch].spawnlaw,
                                  probe.chans[ch].spawnrules,
                                  Head(pokemon.pokemon_id), testvars, FALSE,
                                  ProbeCooldown))]]
    /\ UNCHANGED <<handled, timers, now, prior, ranks, rareness, numsent, call,
                   conf, refresh, cooldown>>

(* the estimated ranges, one of them below TIME_REQUIRED *)
LegacyTimeRanges == TimeRanges \cup {<<0, 0>>}

LegacyNext ==
    \/ \E ch \in ChannelNames, key \in SpeciesKeys, rule \in StoredRuleChoices :
            LegacyStoreSpawn(ch, key, rule)
    \/ BuildChannelMap
    \/ \E pokemon \in Pokemons, timerange \in LegacyTimeRanges :
            LegacyMatch(pokemon, timerange)

SpecLegacy == InitLegacy /\ [][LegacyNext]_vars

-----------------------------------------------------------------------------
(* ChannelMap.close_senders and ChannelMap.test_senders on their own: the  *)
(* senders of all channels chained into one list, one coroutine per sender *)
(* handed to gather                                                        *)

MaxClosers == 3     \* the senders of all channels together

(* how a close() wrapped in wait_for(timeout=5) ends: it returns, raises   *)
(* SenderError or another Exception, or is cancelled by the timeout, which *)
(* makes wait_for raise TimeoutError                                       *)
CloseOutcomes == {"ok", "SenderError", "Exception"}

(* how self.websession.close() ends *)
SessionOutcomes == {"ok", "ClientError"}

(* how a test() ends *)
TestOutcomes == {"ok", "SenderError", "Exception"}

(* no call of close_senders or test_senders is under way; n senders are    *)
(* configured.  tasks holds the state of each coroutine handed to gather,  *)
(* first the exception a gather without return_exceptions holds for its    *)
(* awaiter, logged the senders reported by log.error (0: the warning of    *)
(* test_senders), session what became of the shared web session            *)
NoSenderCall(n) ==
    [op |-> "none", pc |-> "idle", n |-> n, tasks |-> <<>>, first |-> "",
     logged |-> {}, session |-> "open", ret |-> "-", exc |-> ""]

InitSenders ==
    /\ handled = {}
    /\ timers = {}
    /\ now = 0
    /\ prior = [ch \in Channels |-> CooldownInit(0)]
    /\ ranks = MakeRankDict(Ranking)
    /\ rareness = MakeRarenessDict(Ranking)
    /\ numsent = [spawn |-> 0, raid |-> 0]
    /\ call = [p \in Calls |-> IdleCall]
    /\ conf = DefaultConf
    /\ refresh = InitRefresh(DefaultConf)
    /\ cooldown = MakeCooldown
    /\ probe \in {NoSenderCall(n) : n \in 0..MaxClosers}

(* a close_senders that lets the first exception among the results of      *)
(* gather leave the call                                                   *)
CloseSendersEndRaising(pr, ws) ==
    LET failed == {i \in 1..Len(pr.tasks) : pr.tasks[i] # "ok"}
    IN  IF failed # {}
        THEN [pr EXCEPT !.pc = "done", !.exc = "Exception"]
        ELSE [pr EXCEPT !.pc = "done", !.session = ws, !.ret = "None"]

(* close_senders once gather(return_exceptions=True) is done: every result *)
(* that is an Exception is logged with its sender; websession.close() is   *)
(* called and its ClientError logged; the call returns None                *)
CloseSendersEnd(pr, ws) ==
    [pr EXCEPT !.pc = "done",
               !.logged = {i \in 1..Len(pr.tasks) : pr.tasks[i] # "ok"},
               !.session = ws,
               !.ret = "None"]

(* close_senders up to its await: a wait_for(s.close(), timeout=5) for     *)
(* every sender, all handed to gather; with no senders gather is done at   *)
(* once                                                                    *)
CloseSendersStart(ws) ==
    /\ probe.pc = "idle"
    /\ LET s1 == [probe EXCEPT !.op = "close",
                               !.tasks = [i \in 1..probe.n |-> "pending"]]
       IN  probe' = IF probe.n = 0 THEN CloseSendersEnd(s1, ws)
                    ELSE [s1 EXCEPT !.pc = "gathering"]
    /\ UNCHANGED <<handled, timers, now, prior, ranks, rareness, numsent, call,
                   conf, refresh, cooldown>>

(* the close() of sender i ends within the timeout *)
CloseEnds(i, outcome) ==
    /\ probe.op = "close" /\ probe.pc = "gathering"
    /\ i \in 1..Len(probe.tasks)
    /\ probe.tasks[i] = "pending"
    /\ probe' = [probe EXCEPT !.tasks[i] = outcome]
    /\ UNCHANGED <<handled, timers, now, prior, ranks, rareness, numsent, call,
                   conf, refresh, cooldown>>

(* the timeout of the wait_for of sender i fires: close() is cancelled and *)
(* wait_for raises TimeoutError                                            *)
CloseTimesOut(i) ==
    /\ probe.op = "close" /\ probe.pc = "gathering"
    /\ i \in 1..Len(probe.tasks)
    /\ probe.tasks[i] = "pending"
    /\ probe' = [probe EXCEPT !.tasks[i] = "TimeoutError"]
    /\ UNCHANGED <<handled, timers, now, prior, ranks, rareness, numsent, call,
                   conf, refresh, cooldown>>

(* gather is done: close_senders resumes and runs to its end *)
CloseSendersReturn(ws) ==
    /\ probe.op = "close" /\ probe.pc = "gathering"
    /\ GatherDone(probe.tasks)
    /\ probe' = CloseSendersEnd(probe, ws)
    /\ UNCHANGED <<handled, timers, now, prior, ranks, rareness, numsent, call,
                   conf, refresh, cooldown>>

(* test_senders once its await of gather is over; first is the exception   *)
(* gather raised, "" when every test() returned.  A SenderError is logged  *)
(* and answered with False, any other exception leaves the call            *)
TestSendersEnd(pr, first) ==
    IF first = "" THEN [pr EXCEPT !.pc = "done", !.ret = "True"]
    ELSE IF first = "SenderError"
    THEN [pr EXCEPT !.pc = "done", !.logged = {0}, !.ret = "False"]
    ELSE [pr EXCEPT !.pc = "done", !.exc = first]

(* test_senders up to its await: a test() for every sender, all handed to  *)
(* gather; with no senders a warning is logged and gather is done at once  *)
TestSendersStart ==
    /\ probe.pc = "idle"
    /\ LET s1 == [probe EXCEPT !.op = "test",
                               !.tasks = [i \in 1..probe.n |-> "pending"]]
       IN  probe' = IF probe.n = 0 THEN TestSendersEnd(s1, "")
                    ELSE [s1 EXCEPT !.pc = "gathering"]
    /\ UNCHANGED <<handled, timers, now, prior, ranks, rareness, numsent, call,
                   conf, refresh, cooldown>>

(* the test() of sender i ends.  gather without return_exceptions hands    *)
(* the first exception to its awaiter                                      *)
TestEnds(i, outcome) ==
    /\ probe.op = "test" /\ probe.pc = "gathering"
    /\ i \in 1..Len(probe.tasks)
    /\ probe.tasks[i] = "pending"
    /\ probe' = [probe EXCEPT
            !.tasks[i] = outcome,
            !.first = IF @ = "" /\ outcome # "ok" THEN outcome ELSE @]
    /\ UNCHANGED <<handled, timers, now, prior, ranks, rareness, numsent, call,
                   conf, refresh, cooldown>>

(* the exception gather raised, "" when there is none *)
FirstException(pr) == pr.first

(* gather is done or has raised: test_senders resumes and runs to its end *)
TestSendersReturn ==
    /\ probe.op = "test" /\ probe.pc = "gathering"
    /\ GatherDone(probe.tasks) \/ FirstException(probe) # ""
    /\ probe' = TestSendersEnd(probe, FirstException(probe))
    /\ UNCHANGED <<handled, timers, now, prior, ranks, rareness, numsent, call,
                   conf, refresh, cooldown>>

SendersNext ==
    \/ \E ws \in SessionOutcomes : CloseSendersStart(ws)
    \/ \E i \in 1..MaxClosers, outcome \in CloseOutcomes : CloseEnds(i, outcome)
    \/ \E i \in 1..MaxClosers : CloseTimesOut(i)
    \/ \E ws \in SessionOutcomes : CloseSendersReturn(ws)
    \/ TestSendersStart
    \/ \E i \in 1..MaxClosers, outcome \in TestOutcomes : TestEnds(i, outcome)
    \/ TestSendersReturn

(* the event loop runs every timeout that is due and resumes every         *)
(* coroutine whose await is over; nothing makes a close() or a test() end  *)
SpecSenders ==
    /\ InitSenders
    /\ [][SendersNext]_vars
    /\ WF_vars(\E i \in 1..MaxClosers : CloseTimesOut(i))
    /\ WF_vars(\E ws \in SessionOutcomes : CloseSendersReturn(ws))
    /\ WF_vars(TestSendersReturn)

-----------------------------------------------------------------------------
(* The _TempSet on its own: `with items.temp_add(item)` blocks opened on   *)
(* any item, present or not, their ends with and without keep(), the       *)
(* check notify() makes before it opens its own block, and the call_later  *)
(* timers.                                                                 *)

(* the seconds handed to keep(), in ticks; 0 stands for no call of keep()  *)
KeepDelays == {0, 1, 2}

(* the blocks that are open, and what the last statement did: op, item,    *)
(* whether it raised ValueError, whether a _Manager was made, the value    *)
(* notify() returned, and the set and timers just before it                *)
NoTempSet ==
    [open |-> {}, op |-> "-", item |-> 0, raised |-> FALSE, manager |-> FALSE,
     ret |-> "-", before |-> [handled |-> {}, timers |-> {}]]

InitTempSet ==
    /\ handled = {}
    /\ timers = {}
    /\ now = 0
    /\ prior = [ch \in Channels |-> CooldownInit(0)]
    /\ ranks = MakeRankDict(Ranking)
    /\ rareness = MakeRarenessDict(Ranking)
    /\ numsent = [spawn |-> 0, raid |-> 0]
    /\ call = [p \in Calls |-> IdleCall]
    /\ conf = DefaultConf
    /\ refresh = InitRefresh(DefaultConf)
    /\ cooldown = MakeCooldown
    /\ probe = NoTempSet

(* a `with` statement that runs __exit__ although __enter__ raised *)
WithEnterExitsOnFailure(st, item) ==
    LET entered == ManagerEnter(st.handled, item)
    IN  IF entered.raised
        THEN [raised |-> TRUE,
              st |-> ManagerExit([st EXCEPT !.handled = entered.items], item, 0)]
        ELSE [raised |-> FALSE, st |-> [st EXCEPT !.handled = entered.items]]

(* `with items.temp_add(item):` up to the first statement of its body:     *)
(* __enter__ runs, and when it raises the body and __exit__ do not run     *)
WithEnter(st, item) ==
    LET entered == ManagerEnter(st.handled, item)
    IN  IF entered.raised
        THEN [raised |-> TRUE, st |-> st]
        ELSE [raised |-> FALSE, st |-> [st EXCEPT !.handled = entered.items]]

TempSetState == [handled |-> handled, timers |-> timers]

TempSetCommit(st) ==
    /\ handled' = st.handled
    /\ timers' = st.timers
    /\ UNCHANGED <<now, prior, ranks, rareness, numsent, call, conf, refresh,
                   cooldown>>

(* `with items.temp_add(item):` *)
TempAdd(item) ==
    LET res == WithEnter(TempSetState, item)
    IN  /\ probe' = [open |-> IF res.raised THEN probe.open
                              ELSE probe.open \cup {item},
                     op |-> "temp_add", item |-> item, raised |-> res.raised,
                     manager |-> TRUE, ret |-> "-", before |-> TempSetState]
        /\ TempSetCommit(res.st)

(* the first statements of notify() for this encounter id: the membership  *)
(* test that returns False, and the `with` statement after it              *)
NotifyCheck(id) ==
    IF InHandled(id, handled)
    THEN /\ probe' = [probe EXCEPT !.op = "notify", !.item = id,
                                   !.raised = FALSE, !.manager = FALSE,
                                   !.ret = "False", !.before = TempSetState]
         /\ TempSetCommit(TempSetState)
    ELSE LET res == WithEnter(TempSetState, id)
         IN  /\ probe' = [open |-> IF res.raised THEN probe.open
                                   ELSE probe.open \cup {id},
                          op |-> "notify", item |-> id, raised |-> res.raised,
                          manager |-> TRUE, ret |-> "-", before |-> TempSetState]
             /\ TempSetCommit(res.st)

(* the end of an open block, after keep(seconds) when seconds is not 0 *)
TempExit(item, seconds) ==
    /\ item \in probe.open
    /\ probe' = [probe EXCEPT !.open = @ \ {item}, !.op = "exit", !.item = item,
                              !.raised = FALSE, !.manager = FALSE, !.ret = "-",
                              !.before = TempSetState]
    /\ TempSetCommit(ManagerExit(TempSetState, item, seconds))

TempSetNext ==
    \/ \E item \in EncounterIds : TempAdd(item)
    \/ \E id \in EncounterIds : NotifyCheck(id)
    \/ \E item \in EncounterIds, seconds \in KeepDelays : TempExit(item, seconds)
    \/ \E t \in timers : TimerFire(t)
    \/ Tick

SpecTempSet == InitTempSet /\ [][TempSetNext]_vars

-----------------------------------------------------------------------------
(* The cooldown of a channel from its construction: Channel.__init__ calls *)
(* _make_cooldown under the scores of the config file, which may lack      *)
(* MINIMUM_SCORE or INITIAL_SCORE or hold them in the wrong order; when it *)
(* raises, no Channel and no notifier exist, so nothing is reset or read   *)

(* a score of the config file, or None when the file does not set it *)
OptLevels == {None} \cup {Some(x) : x \in 0..MaxLevel}

ScoreConfs ==
    { [MINIMUM_SCORE |-> m, INITIAL_SCORE |-> i, FULL_TIME |-> d] :
        m \in OptLevels, i \in OptLevels, d \in 0..MaxDuration }

(* a _make_cooldown without the comparison of the two scores *)
MakeCooldownOfUnchecked(sc, t) ==
    LET idleminscore == sc.MINIMUM_SCORE
        busyminscore == IF sc.INITIAL_SCORE # None THEN sc.INITIAL_SCORE
                        ELSE idleminscore
    IN  IF idleminscore # None
        THEN [raised |-> FALSE,
              cd |-> NewCooldown(Head(busyminscore), Head(idleminscore),
                                 sc.FULL_TIME, t)]
        ELSE [raised |-> FALSE, cd |-> NewCooldown(0, 0, 0, t)]

(* Channel._make_cooldown at time t: getattr(conf, 'MINIMUM_SCORE', None), *)
(* getattr(conf, 'INITIAL_SCORE', idleminscore), ValueError when the busy  *)
(* score is below the idle score, _Cooldown() without MINIMUM_SCORE        *)
MakeCooldownOf(sc, t) ==
    LET idleminscore == sc.MINIMUM_SCORE
        busyminscore == IF sc.INITIAL_SCORE # None THEN sc.INITIAL_SCORE
                        ELSE idleminscore
    IN  IF idleminscore # None
        THEN IF Head(busyminscore) < Head(idleminscore)
             THEN [raised |-> TRUE, cd |-> NewCooldown(0, 0, 0, t)]
             ELSE [raised |-> FALSE,
                   cd |-> NewCooldown(Head(busyminscore), Head(idleminscore),
                                      sc.FULL_TIME, t)]
        ELSE [raised |-> FALSE, cd |-> NewCooldown(0, 0, 0, t)]

(* the scores of the config file, and whether the channel was made: "no",  *)
(* "ok" or "ValueError"; events counts the reset() and get() calls         *)
NoChannel(sc) == [scores |-> sc, made |-> "no", events |-> 0]

InitChannel ==
    /\ handled = {}
    /\ timers = {}
    /\ now = 0
    /\ prior = [ch \in Channels |-> CooldownInit(0)]
    /\ ranks = MakeRankDict(Ranking)
    /\ rareness = MakeRarenessDict(Ranking)
    /\ numsent = [spawn |-> 0, raid |-> 0]
    /\ call = [p \in Calls |-> IdleCall]
    /\ conf = DefaultConf
    /\ refresh = InitRefresh(DefaultConf)
    /\ cooldown = NewCooldown(0, 0, 0, 0)
    /\ \E sc \in ScoreConfs : probe = NoChannel(sc)

(* Channel.__init__: self.cooldown = self._make_cooldown() *)
ChannelInit ==
    /\ probe.made = "no"
    /\ LET made == MakeCooldownOf(probe.scores, now)
       IN  /\ probe' = [probe EXCEPT
                    !.made = IF made.raised THEN "ValueError" ELSE "ok"]
           /\ cooldown' = made.cd
    /\ UNCHANGED <<handled, timers, now, prior, ranks, rareness, numsent, call,
                   conf, refresh>>

(* channel.cooldown.reset() of notify() *)
ChannelReset ==
    /\ probe.made = "ok"
    /\ probe' = [probe EXCEPT !.events = 1]
    /\ cooldown' = [cooldown EXCEPT !.prior2 = 2 * now, !.got = None, !.at = 0,
                                   !.wasreset = TRUE]
    /\ UNCHANGED <<handled, timers, now, prior, ranks, rareness, numsent, call,
                   conf, refresh>>

(* channel.cooldown.get() of _match_rules *)
ChannelGet ==
    /\ probe.made = "ok"
    /\ probe' = [probe EXCEPT !.events = 1]
    /\ cooldown' = [cooldown EXCEPT
            !.got = Some(CooldownValue(cooldown, now)), !.at = now]
    /\ UNCHANGED <<handled, timers, now, prior, ranks, rareness, numsent, call,
                   conf, refresh>>

ChannelNext == ChannelInit \/ ChannelReset \/ ChannelGet \/ Tick

SpecChannel == InitChannel /\ [][ChannelNext]_vars

-----------------------------------------------------------------------------
(* Properties                                                              *)

(* call p is inside the `with self._handled.temp_add(...)` block of        *)
(* notify(), suspended at one of its awaits                                *)
InBlock(p) ==
    /\ call[p].kind = "spawn"
    /\ call[p].pc \in {"estimating", "imaging", "sending", "handling"}

(* this step is the start of a notify() for encounter id in slot p *)
NotifyStarts(p, id) ==
    /\ call[p].pc = "idle"
    /\ call'[p].kind = "spawn"
    /\ call'[p].ev.encounter_id = id

(* this step is an eligible() for encounter id in slot p *)
EligibleRuns(p, id) ==
    /\ call[p].pc = "idle"
    /\ call'[p].kind = "eligible"
    /\ call'[p].ev.encounter_id = id

(* the notify() in slot p returned False at its handled check: it neither  *)
(* evaluated a rule nor invoked a sender                                   *)
Refused(c) ==
    /\ c.pc = "done"
    /\ c.ret = "False"
    /\ ~c.evaluated
    /\ c.sends = <<>>

(* C1: at most one notify() at a time is inside the handling block for an  *)
(* encounter id, and an encounter that is inside it is in the handled set  *)
C1_OneHandler ==
    \A p \in Calls :
        InBlock(p) =>
            /\ call[p].ev.encounter_id \in handled
            /\ \A q \in Calls \ {p} :
                  InBlock(q) => call[q].ev.encounter_id # call[p].ev.encounter_id

(* C1: a notify() that starts for an encounter id while another notify()   *)
(* for that id is in progress returns False without evaluating rules or    *)
(* sending                                                                 *)
C1_ConcurrentRefused ==
    \A p \in Calls, q \in Calls :
        (/\ InBlock(q)
         /\ NotifyStarts(p, call[q].ev.encounter_id)) => Refused(call'[p])

(* C1: of the notify() calls made for one encounter id while none has      *)
(* finished, at most one gets past the combined check and insert; the      *)
(* others return False                                                     *)
C1_SingleEntry == []C1_OneHandler /\ [][C1_ConcurrentRefused]_vars

(* one notify() is sending for an encounter while another for the same     *)
(* encounter has been refused                                              *)
C1_Witness ==
    \E p \in Calls, q \in Calls :
        /\ InBlock(q)
        /\ call[q].pc = "sending"
        /\ call[p].kind = "spawn"
        /\ call[p].ev.encounter_id = call[q].ev.encounter_id
        /\ Refused(call[p])

(* the retention window of encounter id is open: its scheduled removal     *)
(* has time left                                                           *)
Window(id) == \E t \in timers : t.item = id /\ t.left > 0

(* C2: while the retention window of an encounter is open the encounter    *)
(* is in the handled set: only the scheduled removal takes it out          *)
C2_RetainedInWindow ==
    \A t \in timers : t.left > 0 => t.item \in handled

(* C2: inside the window notify() for the encounter returns False without  *)
(* evaluating rules and eligible() for it returns False                    *)
C2_RefusedInWindow ==
    \A p \in Calls, t \in timers :
        t.left > 0 =>
            /\ NotifyStarts(p, t.item) => Refused(call'[p])
            /\ EligibleRuns(p, t.item) =>
                   call'[p].pc = "done" /\ call'[p].ret = "False"

(* C2: after a delivered notify() retained the encounter for N seconds,    *)
(* until those N seconds have passed notify() and eligible() for it        *)
(* return False, and the encounter stays handled                           *)
C2_RetentionWindow == []C2_RetainedInWindow /\ [][C2_RefusedInWindow]_vars

(* inside the window of encounter 1, an eligible() and a notify() for it   *)
(* have both returned False                                                *)
C2_Witness ==
    /\ Window(1)
    /\ call[1].kind = "eligible" /\ call[1].pc = "done"
    /\ call[1].ev.encounter_id = 1 /\ call[1].ret = "False"
    /\ call[2].kind = "spawn" /\ call[2].ev.encounter_id = 1
    /\ Refused(call[2])

(* the number of senders whose send() returned without raising *)
OkCount(sends) == Cardinality({i \in 1..Len(sends) : sends[i] = "ok"})

(* C3: _multi_send never raises whatever the sends raise, and returns the  *)
(* number of senders whose send() did not raise                            *)
C3_NeverRaisesCountsOk ==
    (call[1].kind = "fanout" /\ call[1].pc = "done") =>
        /\ call[1].ms = "returned"
        /\ call[1].count = OkCount(call[1].sends)

(* C4: while an orchestrator waits in _multi_send, the send() of every     *)
(* sender of every matched channel has been started; and _multi_send has   *)
(* ended only when each of them ran to its own completion, whatever the    *)
(* others did                                                              *)
C4_AllStartedAllCompleted ==
    \A p \in Calls :
        call[p].kind \in {"spawn", "raid"} =>
            /\ call[p].pc = "sending" =>
                   Len(call[p].sends) =
                       Len(ChainSenders(ChannelOrder, call[p].matched))
            /\ call[p].ms # "none" =>
                   /\ Len(call[p].sends) =
                          Len(ChainSenders(ChannelOrder, call[p].matched))
                   /\ \A i \in 1..Len(call[p].sends) :
                          call[p].sends[i] \in Outcomes

(* _multi_send has ended with two senders, the first of which failed and   *)
(* the second of which delivered                                           *)
C4_Witness ==
    \E p \in Calls :
        /\ call[p].ms = "returned"
        /\ call[p].sends = <<"SenderError", "ok">>

(* C5: notify() and raid_notify() return True exactly when the send() of   *)
(* at least one sender did not raise                                       *)
C5_TrueIffSomeSenderOk ==
    \A p \in Calls :
        (call[p].kind \in {"spawn", "raid"} /\ call[p].pc = "done") =>
            (call[p].ret = "True" <=> OkCount(call[p].sends) > 0)

(* an orchestrator call that ended with no channel matched *)
NoMatch(c) ==
    /\ c.kind \in {"spawn", "raid"}
    /\ c.pc = "done"
    /\ c.evaluated
    /\ c.matched = {}
    /\ c.exc = ""

(* an orchestrator call that ended after channels matched, every sender    *)
(* of which was invoked and failed                                         *)
AllFailed(c) ==
    /\ c.kind \in {"spawn", "raid"}
    /\ c.pc = "done"
    /\ c.matched # {}
    /\ c.sends # <<>>
    /\ \A i \in 1..Len(c.sends) : c.sends[i] \in Failures

(* C6: what the caller gets when no channel matched differs from what it   *)
(* gets when channels matched and every sender failed                      *)
C6_SkipDiffersFromFailure ==
    \A p \in Calls, q \in Calls :
        (NoMatch(call[p]) /\ AllFailed(call[q])) => call[p].ret # call[q].ret

(* C6, as the code has it: the caller gets False when no channel matched,  *)
(* and False as well when channels matched and every sender failed, unless *)
(* _multi_send itself raised, when it gets None; it never gets True and no *)
(* exception reaches it in either case                                     *)
C6_SkipAndFailureBothFalsy ==
    \A p \in Calls :
        /\ NoMatch(call[p]) => call[p].ret = "False"
        /\ AllFailed(call[p]) =>
              /\ call[p].ms = "returned" => call[p].ret = "False"
              /\ call[p].ms = "raised" => call[p].ret = "None"
              /\ call[p].ms \in {"returned", "raised"}

(* one call ended with no channel matched, another with every sender       *)
(* failed, and both handed False to their callers                          *)
C6_Witness ==
    \E p \in Calls, q \in Calls :
        /\ NoMatch(call[p]) /\ call[p].ret = "False"
        /\ AllFailed(call[q]) /\ call[q].ret = "False"

(* C7: a channel's cooldown timestamp is rewritten only once a send of a   *)
(* spawn notify() that matched the channel has succeeded; a notify() none  *)
(* of whose senders delivered leaves it as it was                          *)
C7_ResetOnlyAfterDelivery ==
    [][\A ch \in Channels :
          prior'[ch] # prior[ch] =>
              \E p \in Calls :
                  /\ call'[p].kind = "spawn"
                  /\ ch \in call'[p].matched
                  /\ OkCount(call'[p].sends) > 0]_vars

(* this step is a step of a raid_notify() call *)
RaidStep(p) ==
    /\ call'[p] # call[p]
    /\ call[p].kind = "raid" \/ call'[p].kind = "raid"

(* C8: the step in which raid_notify() finds channels that match resets    *)
(* the cooldown of each of them                                            *)
C8_RaidResetsCooldown ==
    [][\A p \in Calls :
          (RaidStep(p) /\ call[p].pc = "idle" /\ call'[p].matched # {}) =>
              \A ch \in call'[p].matched : prior'[ch] = CooldownReset(now)]_vars

(* C8, as the code has it: no step of raid_notify() changes the cooldown   *)
(* timestamp of any channel, matched or not                                *)
C8_RaidLeavesCooldown ==
    [][\A p \in Calls : RaidStep(p) => prior' = prior]_vars

(* a raid_notify() matched channels and delivered, after the clock moved,  *)
(* and the channels it matched still have their initial timestamp          *)
C8_Witness ==
    \E p \in Calls :
        /\ call[p].kind = "raid" /\ call[p].pc = "done"
        /\ call[p].ret = "True"
        /\ now > 0
        /\ \A ch \in call[p].matched : prior[ch] = CooldownInit(0)

(* this step ends the orchestrator call in slot p with no channel matched *)
EndsUnmatched(p) ==
    /\ call[p].pc \in {"idle", "estimating"}
    /\ NoMatch(call'[p])

(* C9: an orchestrator call in which no channel matched invoked no sender, *)
(* reset no cooldown, left the sent count as it was and, for a spawn, left *)
(* the encounter out of the handled set with no removal scheduled          *)
C9_NoMatchNoEffect ==
    [][\A p \in Calls :
          /\ (call'[p] # call[p] /\ call'[p].pc = "estimating") =>
                 /\ prior' = prior
                 /\ numsent' = numsent
          /\ EndsUnmatched(p) =>
                 /\ call'[p].sends = <<>>
                 /\ call'[p].ret = "False"
                 /\ prior' = prior
                 /\ numsent' = numsent
                 /\ timers' = timers
                 /\ call'[p].kind = "spawn" =>
                        call'[p].ev.encounter_id \notin handled']_vars

(* a notify() ran the rules with its remaining time known, no channel      *)
(* matched, and its encounter is not in the handled set                    *)
C9_Witness ==
    \E p \in Calls :
        /\ NoMatch(call[p])
        /\ call[p].kind = "spawn"
        /\ "remainmax" \in DOMAIN call[p].testvars
        /\ call[p].ret = "False"
        /\ call[p].ev.encounter_id \notin handled

(* C10: eligible() changes neither the handled set, nor a scheduled        *)
(* removal, nor a cooldown, nor the rank and rareness tables, nor the sent *)
(* count                                                                   *)
C10_EligibleReadOnly ==
    [][\A p \in Calls :
          (call'[p] # call[p] /\ call'[p].kind = "eligible") =>
              UNCHANGED <<handled, timers, prior, ranks, rareness, numsent>>]_vars

(* eligible() answered True for an encounter that is not in the handled    *)
(* set afterwards                                                          *)
C10_Witness ==
    \E p \in Calls :
        /\ call[p].kind = "eligible" /\ call[p].pc = "done"
        /\ call[p].ret = "True"
        /\ call[p].ev.encounter_id \notin handled

-----------------------------------------------------------------------------
(* Properties of rule matching                                             *)

(* the IV sums an encounter may report *)
IvSums == {0, 27, 45}

(* the testvars notify() may end up with for a pokemon eligible() saw      *)
(* without its encounter or its despawn time: the same spawn with the      *)
(* missing individual values and time range filled in                      *)
Completions(pokemon) ==
    LET ivs == IF pokemon.ivsum = None THEN {Some(k) : k \in IvSums}
               ELSE {pokemon.ivsum}
        times == IF pokemon.tth = None
                 THEN {<<Some(t[1]), Some(t[2])>> : t \in TimeRanges}
                 ELSE {<<pokemon.tth, None>>}
    IN  { Update(MakeTestVars([pokemon EXCEPT !.ivsum = iv], ranks, rareness),
                 MakeRemainVars(t[1], t[2])) : iv \in ivs, t \in times }

(* the match on the channel under configuration was a spawn match *)
SpawnProbed(optimism) ==
    /\ probe.match.kind = "spawn"
    /\ probe.match.optimism = optimism

(* strict matching of the channel under configuration on testvars *)
StrictOn(testvars) ==
    MatchRulesOf(probe.chan.spawnlaw, probe.chan.spawnrules,
                 Head(probe.match.ev.pokemon_id), testvars, FALSE, ProbeCooldown)

(* C11: whenever strict matching returns True on some completion of the    *)
(* partial testvars, at the same cooldown value, optimistic matching on    *)
(* the partial testvars returned True                                      *)
C11_OptimisticSound ==
    SpawnProbed(TRUE) =>
        \A testvars \in Completions(probe.match.ev) :
            StrictOn(testvars) = Ok(TRUE) => probe.match.result = "True"

(* this step is the one in which the notify() in slot p runs the rules of  *)
(* the channels                                                            *)
Evaluates(p) ==
    /\ call[p].pc \in {"idle", "estimating"}
    /\ call'[p].kind = "spawn"
    /\ call'[p].evaluated

(* the channels that pass strict matching on the testvars the notify() in  *)
(* slot p evaluates in this step                                           *)
StrictMatches(p) ==
    {ch \in Channels :
        MatchRules(ch, Head(call'[p].ev.pokemon_id), call'[p].testvars, FALSE,
                   CooldownGet(prior[ch], now)) = Ok(TRUE)}

(* what eligible() makes of the rules for the pokemon of slot p in the     *)
(* state before this step                                                  *)
OptimisticSays(p) ==
    AnyOptimistic(ChannelOrder, Head(call'[p].ev.pokemon_id),
                  EligibleTestVars(call'[p].ev))

(* C12: a notify() for a pokemon that eligible() lets through, whose       *)
(* completed testvars pass strict matching on no channel, invokes no       *)
(* sender and returns False                                                *)
C12_StrictRecheckReturnsFalse ==
    [][\A p \in Calls :
          (Evaluates(p) /\ OptimisticSays(p) = "True" /\ StrictMatches(p) = {}) =>
              /\ call'[p].pc = "done"
              /\ call'[p].sends = <<>>
              /\ call'[p].ret = "False"]_vars

(* C19: a law test that reads a missing variable makes its channel not     *)
(* match and nothing more: notify() does not raise, and it goes on with    *)
(* exactly the channels that pass strict matching                          *)
C19_MissingLawVariableOnlyFails ==
    [][\A p \in Calls :
          Evaluates(p) =>
              /\ call'[p].exc # "KeyError"
              /\ call'[p].matched = StrictMatches(p)]_vars

(* the match of the channel under configuration, as its inputs: the kind   *)
(* of event, the testvars with the cooldown chained in, the rules looked   *)
(* up for the event's species, and the law                                 *)
Probed == probe.match.kind # "none"

ProbeCtx ==
    IF probe.match.kind = "spawn"
    THEN ChainCooldown(EligibleTestVars(probe.match.ev), ProbeCooldown)
    ELSE MakeRaidTestVars(probe.match.ev)

ProbeRuleMap ==
    IF probe.match.kind = "spawn" THEN probe.chan.spawnrules
    ELSE probe.chan.raidrules

(* the species' own rules and the wildcard rules of the rule map *)
OwnRules ==
    LET dexno == probe.match.ev.pokemon_id
        sp == ProbeRuleMap.species
    IN  IF dexno # None /\ Head(dexno) \in DOMAIN sp THEN sp[Head(dexno)] ELSE <<>>

WildRules == ProbeRuleMap.fallback

ProbeRules == IF OwnRules # <<>> THEN OwnRules ELSE WildRules

ProbeLaw == IF probe.match.kind = "spawn" THEN probe.chan.spawnlaw ELSE <<>>

(* a test returns true under the evaluator of the match *)
TestTrue(test) == RunTest(test, ProbeCtx, probe.match.optimism) = Ok(TRUE)

(* a test evaluates to false under the evaluator of the match *)
TestFalse(test) == RunTest(test, ProbeCtx, probe.match.optimism) = Ok(FALSE)

(* a test reads a variable that the context lacks *)
TestMissing(test) == ~CallTest(test, ProbeCtx).ok

(* every law test returns true *)
LawPasses == \A i \in 1..Len(ProbeLaw) : TestTrue(ProbeLaw[i])

(* a rule passes: a literal boolean as it says, a collection of tests when *)
(* each of them returns true                                               *)
RulePasses(rule) ==
    IF rule.kind = "bool" THEN rule.val
    ELSE \A i \in 1..Len(rule.tests) : TestTrue(rule.tests[i])

(* C13: on a channel without law, a species whose only rule is a           *)
(* collection of tests matches exactly when every test returns true; under *)
(* strict evaluation a test on a missing variable makes the result False   *)
C13_RuleIsConjunction ==
    (Probed /\ ProbeLaw = <<>> /\ Len(ProbeRules) = 1
        /\ ProbeRules[1].kind = "tests") =>
        LET tests == ProbeRules[1].tests
        IN  /\ probe.match.result = "True" <=>
                   \A i \in 1..Len(tests) : TestTrue(tests[i])
            /\ (SpawnProbed(FALSE)
                    /\ \E i \in 1..Len(tests) : TestMissing(tests[i])) =>
                   probe.match.result = "False"

(* a rule of two tests was matched strictly on testvars on which its       *)
(* second test returns true and its first one false: no match              *)
C13_Witness ==
    /\ Probed /\ ~probe.match.optimism
    /\ ProbeLaw = <<>> /\ Len(ProbeRules) = 1
    /\ ProbeRules[1].kind = "tests" /\ Len(ProbeRules[1].tests) = 2
    /\ TestFalse(ProbeRules[1].tests[1])
    /\ TestTrue(ProbeRules[1].tests[2])
    /\ probe.match.result = "False"

(* C14: with the law satisfied, a channel matches exactly when at least    *)
(* one of the rules of the species passes, whatever their order            *)
C14_RulesAreDisjunction ==
    (Probed /\ LawPasses) =>
        (probe.match.result = "True" <=>
            \E i \in 1..Len(ProbeRules) : RulePasses(ProbeRules[i]))

(* C15: a literal False rule is skipped: when the rules of the species are *)
(* False followed by a rule that passes, the channel matches; a literal    *)
(* True rule in first place makes it match                                 *)
C15_FalseRuleSkipped ==
    (Probed /\ LawPasses /\ ProbeRules # <<>>) =>
        /\ (/\ Len(ProbeRules) = 2
            /\ ProbeRules[1] = RuleBool(FALSE)
            /\ RulePasses(ProbeRules[2])) => probe.match.result = "True"
        /\ ProbeRules[1] = RuleBool(TRUE) => probe.match.result = "True"

(* the answer of a literal boolean *)
BoolResult(b) == IF b THEN "True" ELSE "False"

(* C16: on a channel without law, a species whose only rule is a literal   *)
(* boolean gets that boolean whatever the context holds; and registering   *)
(* a species with no rules registers the single rule True                  *)
C16_LiteralRuleDecides ==
    /\ (Probed /\ ProbeLaw = <<>> /\ Len(ProbeRules) = 1
            /\ ProbeRules[1].kind = "bool") =>
           probe.match.result = BoolResult(ProbeRules[1].val)
    /\ \A key \in SpeciesKeys :
           /\ RegisterRules(probe.chan.spawnrules, key, <<>>) =
                  RegisterRules(probe.chan.spawnrules, key, <<RuleBool(TRUE)>>)
           /\ RegisterRules(probe.chan.raidrules, key, <<>>) =
                  RegisterRules(probe.chan.raidrules, key, <<RuleBool(TRUE)>>)
           /\ RegisterRules(probe.chan.spawnrules, key, <<>>) # probe.chan.spawnrules

(* a species whose only rule is True matched, strictly, a pokemon that has *)
(* neither encounter details nor a despawn time                            *)
C16_Witness ==
    /\ SpawnProbed(FALSE)
    /\ ProbeLaw = <<>>
    /\ OwnRules = <<RuleBool(TRUE)>>
    /\ probe.match.ev.ivsum = None /\ probe.match.ev.tth = None
    /\ probe.match.result = "True"

(* the match run on a rule map that holds nothing but these rules for the  *)
(* species of the event                                                    *)
ResultOn(rules) ==
    LET only == [species |-> <<>>, fallback |-> rules]
    IN  IF probe.match.kind = "spawn"
        THEN ResultStr(MatchRulesOf(probe.chan.spawnlaw, only,
                          Head(probe.match.ev.pokemon_id),
                          EligibleTestVars(probe.match.ev),
                          probe.match.optimism, ProbeCooldown))
        ELSE ResultStr(MatchRaidRulesOf(only, MakeRaidTestVars(probe.match.ev)))

(* C17: when the species has rules of its own they alone decide, and if    *)
(* none of them passes there is no match even when a wildcard rule would   *)
(* pass; when it has none the wildcard rules decide; with neither there is *)
(* no match                                                                *)
C17_WildcardOnlyWithoutOwnRules ==
    Probed =>
        /\ OwnRules # <<>> =>
              /\ probe.match.result = ResultOn(OwnRules)
              /\ (\A i \in 1..Len(OwnRules) : ~RulePasses(OwnRules[i])) =>
                     probe.match.result # "True"
        /\ OwnRules = <<>> => probe.match.result = ResultOn(WildRules)
        /\ (OwnRules = <<>> /\ WildRules = <<>>) =>
              /\ probe.match.result # "True"
              /\ ProbeLaw = <<>> => probe.match.result = "False"

(* the species has a rule of its own that does not pass, a wildcard rule   *)
(* passes, and the result is no match                                      *)
C17_Witness ==
    /\ Probed /\ LawPasses
    /\ Len(OwnRules) = 1 /\ OwnRules[1].kind = "tests"
    /\ ~RulePasses(OwnRules[1])
    /\ \E i \in 1..Len(WildRules) : RulePasses(WildRules[i])
    /\ probe.match.result = "False"

(* C18: a channel with a law matches a spawn only if every law test        *)
(* passes, whatever the rules of the species are; when a law test          *)
(* evaluates to false there is no match                                    *)
C18_LawMustPass ==
    (Probed /\ probe.match.kind = "spawn" /\ ProbeLaw # <<>>) =>
        /\ probe.match.result = "True" => LawPasses
        /\ (\E i \in 1..Len(ProbeLaw) : TestFalse(ProbeLaw[i])) =>
               probe.match.result # "True"
        /\ (\E i \in 1..Len(ProbeLaw) :
               /\ TestFalse(ProbeLaw[i])
               /\ \A j \in 1..(i - 1) : TestTrue(ProbeLaw[j])) =>
               probe.match.result = "False"

(* the only rule of the species is True, a law test is false on the        *)
(* pokemon's testvars, and the result is no match                          *)
C18_Witness ==
    /\ SpawnProbed(FALSE)
    /\ ProbeRules = <<RuleBool(TRUE)>>
    /\ \E i \in 1..Len(ProbeLaw) : TestFalse(ProbeLaw[i])
    /\ probe.match.result = "False"

(* the rules with the tests of the law added to each of them *)
WithLawTests(rules, law) ==
    [i \in 1..Len(rules) |-> RuleTests(rules[i].tests \o law)]

(* C20: on a channel whose rules are all collections of tests, matching    *)
(* with the law gives what matching without law gives once the tests of    *)
(* the law are added to every rule                                         *)
C20_LawIsTestsInEveryRule ==
    (Probed /\ probe.match.kind = "spawn"
        /\ \A i \in 1..Len(ProbeRules) : ProbeRules[i].kind = "tests") =>
        probe.match.result =
            ResultStr(MatchRulesOf(<<>>,
                [species |-> <<>>,
                 fallback |-> WithLawTests(ProbeRules, ProbeLaw)],
                Head(probe.match.ev.pokemon_id),
                EligibleTestVars(probe.match.ev),
                probe.match.optimism, ProbeCooldown))

-----------------------------------------------------------------------------
(* Properties of the stored configuration (SpecConfig) *)

(* the positions of the spawn_law calls among the stored calls *)
LawCalls(spawnargs) == {i \in 1..Len(spawnargs) : spawnargs[i].law}

(* the tests of the last spawn_law call; the empty law of Channel.__init__ *)
(* when there was no such call                                             *)
LastLaw(spawnargs) ==
    IF LawCalls(spawnargs) = {} THEN <<>>
    ELSE LET last == CHOOSE i \in LawCalls(spawnargs) :
                        \A j \in LawCalls(spawnargs) : j <= i
         IN  spawnargs[last].rules[1]

(* the rules the spawn calls gave for a species key, in call order *)
RECURSIVE RulesGiven(_, _)
RulesGiven(spawnargs, key) ==
    IF spawnargs = <<>> THEN <<>>
    ELSE LET arg == Head(spawnargs)
         IN  (IF ~arg.law /\ arg.species = key THEN arg.rules ELSE <<>>)
                \o RulesGiven(Tail(spawnargs), key)

(* the rules a rule map holds for a species key *)
RulesOfKey(rulemap, key) ==
    IF key = None THEN rulemap.fallback
    ELSE IF Head(key) \in DOMAIN rulemap.species
         THEN rulemap.species[Head(key)] ELSE <<>>

(* C21: the channel built from any sequence of spawn_law and spawn calls   *)
(* has as its law the tests of the last spawn_law call and holds every     *)
(* rule the spawn calls gave; when the last spawn_law call had no tests    *)
(* the law is empty and every spawn passes it, so that the match is        *)
(* decided by the rules alone                                              *)
C21_LastLawWinsRulesKept ==
    probe.built =>
        /\ probe.chan.spawnlaw = LastLaw(probe.spawnargs)
        /\ \A key \in SpeciesKeys :
                RulesOfKey(probe.chan.spawnrules, key)
                    = RulesGiven(probe.spawnargs, key)
        /\ (LastLaw(probe.spawnargs) = <<>> /\ probe.match.kind = "spawn") =>
                /\ LawPasses
                /\ probe.match.result =
                      BoolResult(RuleLoop(ProbeRules, ProbeCtx,
                                          probe.match.optimism))

(* C21 witness: a law with tests, then a rule, then a spawn_law call       *)
(* without tests; a spawn that the first law would have refused matches    *)
C21_Witness ==
    /\ probe.built
    /\ Len(probe.spawnargs) = 3
    /\ probe.spawnargs[1].law /\ probe.spawnargs[1].rules[1] # <<>>
    /\ ~probe.spawnargs[2].law
    /\ probe.spawnargs[3].law /\ probe.spawnargs[3].rules[1] = <<>>
    /\ probe.match.kind = "spawn"
    /\ AllTests(probe.spawnargs[1].rules[1], ProbeCtx, probe.match.optimism)
            = Ok(FALSE)
    /\ probe.match.result = "True"

-----------------------------------------------------------------------------
(* Properties of a _Cooldown on its own (SpecCooldown) *)

(* fractions with positive denominators compared by cross-multiplication *)
FracEq(a, b) == a.num * b.den = b.num * a.den
FracLeq(a, b) == a.num * b.den <= b.num * a.den

(* a get() has returned since the last reset() *)
Got == cooldown.got # None

(* twice the time between the last reset() or __init__ and that get() *)
GotElapsed2 == 2 * cooldown.at - cooldown.prior2

(* the value get() returned was idle wherever the cooldown was over *)
IdleWhenOver ==
    (Got /\ (GotElapsed2 >= 2 * cooldown.duration \/ cooldown.duration = 0)) =>
        FracEq(Head(cooldown.got), Whole(cooldown.idle))

(* the value get() returned lay on the line from busy to idle *)
LinearBetween ==
    (Got /\ cooldown.duration > 0 /\ GotElapsed2 < 2 * cooldown.duration) =>
        /\ FracLeq(Whole(cooldown.idle), Head(cooldown.got))
        /\ FracLeq(Head(cooldown.got), Whole(cooldown.busy))
        /\ Head(cooldown.got).num * 2 * cooldown.duration =
              Head(cooldown.got).den *
                 (cooldown.busy * 2 * cooldown.duration
                    - cooldown.diff * GotElapsed2)

(* a later get() without a reset() in between never returns more *)
NonIncreasing ==
    [][(Got /\ cooldown'.got # None /\ cooldown'.prior2 = cooldown.prior2) =>
            FracLeq(Head(cooldown'.got), Head(cooldown.got))]_vars

(* C22 as stated: after a reset() get() returns busy at elapsed = 0,       *)
(* whatever the duration, returns idle when elapsed >= duration or the duration is 0,   *)
(* and is non-increasing and linear in between                             *)
C22_BusyAtZeroWhateverDuration ==
    /\ [](/\ (Got /\ cooldown.wasreset /\ GotElapsed2 = 0) =>
                FracEq(Head(cooldown.got), Whole(cooldown.busy))
          /\ IdleWhenOver
          /\ LinearBetween)
    /\ NonIncreasing

(* C22: with a duration above 0, get() returns busy at elapsed = 0 after   *)
(* a reset(); it returns idle when elapsed >= duration or the duration is  *)
(* 0 (at elapsed = 0 too); in between the value lies on the line from busy *)
(* to idle and a later get() never returns more than an earlier one        *)
C22_BusyAtZeroIdleWhenOver ==
    /\ [](/\ (Got /\ cooldown.wasreset /\ GotElapsed2 = 0
                  /\ cooldown.duration > 0) =>
                FracEq(Head(cooldown.got), Whole(cooldown.busy))
          /\ IdleWhenOver
          /\ LinearBetween)
    /\ NonIncreasing

(* C22 witness: get() right after a reset() at a later time, on a cooldown *)
(* with busy above idle and no duration, returned idle                     *)
C22_Witness ==
    /\ Got /\ cooldown.wasreset /\ now > 0 /\ cooldown.at = now
    /\ GotElapsed2 = 0
    /\ cooldown.duration = 0
    /\ cooldown.busy > cooldown.idle
    /\ FracEq(Head(cooldown.got), Whole(cooldown.idle))

-----------------------------------------------------------------------------
(* Properties of the rank and rareness tables (SpecRanks) *)

(* both tables were built from the ranking last read *)
TablesBuilt == refresh.last # "failed"

(* the ranked entries of the rareness table, rarest first *)
Ranked == Truncated(conf, refresh.ranking)

(* the settings name an always-notify head-set *)
HeadSet ==
    \/ conf.NOTIFY_RANKING # 0 /\ conf.ALWAYS_NOTIFY # 0
    \/ conf.EMULATE_LEGACY_RARITY_BUGS /\ conf.ALWAYS_NOTIFY_IDS # {}

Overridden(d) == d \in DOMAIN conf.RARITY_OVERRIDE

PlainLimit ==
    /\ TablesBuilt
    /\ conf.NOTIFY_RANKING # 0 \/ conf.NOTIFY_IDS # None
    /\ conf.NOTIFY_RANKING # 0 => Len(Ranked) = conf.NOTIFY_RANKING
    /\ conf.RARITY_OVERRIDE = <<>>
    /\ ~HeadSet

(* C24: under a ranking limit of N species without overrides the first     *)
(* species of the ranking has rareness 1 and the last species within the   *)
(* limit has rareness 0                                                    *)
C24_FirstOneLastZero ==
    PlainLimit =>
        /\ FracEq(rareness[Ranked[1]], Whole(1))
        /\ FracEq(rareness[Ranked[Len(Ranked)]], Whole(0))

(* the test variables of a spawn of species d without encounter details,   *)
(* built from the tables in force                                          *)
TestVarsOf(d) ==
    MakeTestVars(Pokemon(1, d, None, None), ranks, Twentieths(rareness))

(* a species no ranking names *)
Unranked == 4

(* C25: a species' rank is its index, counted from 0, in the ranking as it *)
(* was read, whether or not the ranking limit cuts the rareness table      *)
(* short; in the test variables a species absent from the ranking has rank *)
(* +infinity, a species in the ranking its rank; a species absent from the *)
(* ranking or beyond the limit has rareness -infinity, unless              *)
(* RARITY_OVERRIDE names it, and then it has the override value            *)
C25_RankFromUntruncatedRanking ==
    (TablesBuilt /\ ~HasDuplicate(refresh.ranking)) =>
        \A d \in Species \cup {Unranked} :
            /\ \A i \in 1..Len(refresh.ranking) :
                    refresh.ranking[i] = d =>
                        /\ ranks[d] = i - 1
                        /\ TestVarsOf(d).rank = i - 1
            /\ d \notin Items(refresh.ranking) => TestVarsOf(d).rank = INF
            /\ (d \notin Items(Ranked) /\ ~Overridden(d)) =>
                    TestVarsOf(d).rareness = NEG_INF
            /\ (d \notin Items(Ranked) /\ Overridden(d)) =>
                    TestVarsOf(d).rareness =
                        (20 * conf.RARITY_OVERRIDE[d].num)
                            \div conf.RARITY_OVERRIDE[d].den

(* C25 witness: a refresh read three species under a ranking limit of one: *)
(* the third has rank 2 and rareness -infinity, and the species that no    *)
(* ranking names has rank +infinity and rareness -infinity                 *)
C25_Witness ==
    /\ refresh.last = "ok"
    /\ conf.NOTIFY_RANKING = 1 /\ conf.ALWAYS_NOTIFY = 0
    /\ conf.RARITY_OVERRIDE = <<>>
    /\ Len(refresh.ranking) = 3
    /\ TestVarsOf(refresh.ranking[3]).rank = 2
    /\ TestVarsOf(refresh.ranking[3]).rareness = NEG_INF
    /\ TestVarsOf(Unranked).rank = INF
    /\ TestVarsOf(Unranked).rareness = NEG_INF

(* a _refresh_ranks task ends after logging a failure *)
RefreshFailed == refresh'.tasks < refresh.tasks /\ refresh'.last = "failed"

(* C26: when a refresh fails, whether in the database read or in building  *)
(* a table, the rank table and the rareness table afterwards are the       *)
(* tables that were in force before the refresh started                    *)
C26_FailedRefreshKeepsTables ==
    [][RefreshFailed => (ranks' = ranks /\ rareness' = rareness)]_vars

-----------------------------------------------------------------------------
(* Properties of the periodic refresh (SpecRefresh) *)

(* the refreshes that are scheduled or running *)
Pending == refresh.timers + refresh.tasks

(* C27: with a ranking from the database exactly one refresh is pending at *)
(* any time, as a timer or as a task; every refresh attempt that ends,     *)
(* with the tables rebuilt or with a logged exception, schedules exactly   *)
(* one next refresh; and refreshes are launched and ended again and again  *)
C27_SelfRescheduling ==
    /\ [](Pending = 1)
    /\ [][refresh'.tasks < refresh.tasks =>
            (refresh'.timers = refresh.timers + 1 /\ refresh'.tasks = 0)]_vars
    /\ []<>(refresh.tasks = 1)
    /\ []<>(refresh.timers = 1)

(* C27 witness: a refresh has failed and the next one is scheduled *)
C27_Witness ==
    /\ refresh.last = "failed"
    /\ refresh.timers = 1 /\ refresh.tasks = 0

-----------------------------------------------------------------------------
(* Properties of the handled set (SpecHandled) *)

(* this step ends the notify() in slot p after a fan-out with at least one *)
(* successful sender                                                       *)
Delivers(p) ==
    /\ InBlock(p)
    /\ call'[p].pc = "done"
    /\ call'[p].ms = "returned"
    /\ call'[p].count > 0

(* C28: when the fan-out had a successful sender, the encounter is in the  *)
(* handled set as notify() returns, with its removal scheduled after       *)
(* remainmax seconds (3600 when unknown, at once when negative), whatever  *)
(* the estimate, 0 included; and it stays in the set until then            *)
C28_DeliveredStaysHandled ==
    /\ [][\A p \in Calls :
            Delivers(p) =>
                LET id == call[p].ev.encounter_id
                    keep == KeepSeconds(call'[p].testvars)
                IN  /\ id \in handled'
                    /\ \E t \in timers' :
                          /\ t.item = id
                          /\ t.left = IF keep < 0 THEN 0 ELSE keep]_vars
    /\ [](\A t \in timers : t.item \in handled)

-----------------------------------------------------------------------------
(* Early exits of notify() (Spec) *)

(* this step ends the notify() in slot p, which had entered its `with`     *)
(* block, without a delivery: no channel matched, every sender failed, or  *)
(* an exception was raised                                                 *)
EndsUndelivered(p) ==
    /\ call[p].pc # "done"
    /\ call'[p].pc = "done"
    /\ call'[p].kind = "spawn"
    /\ call'[p].ret # "True"
    /\ ~Refused(call'[p])
    /\ call'[p].exc # "ValueError"

(* C29: when notify() ends without a delivery, the encounter id is out of  *)
(* the handled set as the call returns and no removal is scheduled for it; *)
(* and a notify() for an id that is not in the handled set is not turned   *)
(* away as a duplicate                                                     *)
C29_EarlyExitReleases ==
    [][\A p \in Calls :
          /\ EndsUndelivered(p) =>
                /\ call'[p].ev.encounter_id \notin handled'
                /\ \A t \in timers' : t.item # call'[p].ev.encounter_id
          /\ \A id \in EncounterIds :
                (NotifyStarts(p, id) /\ id \notin handled) =>
                    ~Refused(call'[p])]_vars

(* C29 witness: every sender of a notify() failed, the call is over, and a *)
(* second notify() for the same encounter has run the rules                *)
C29_Witness ==
    \E p, q \in Calls :
        /\ p # q
        /\ AllFailed(call[p])
        /\ call[p].kind = "spawn"
        /\ call[q].kind = "spawn"
        /\ call[q].ev.encounter_id = call[p].ev.encounter_id
        /\ call[q].evaluated
        /\ call[q].pc \in {"imaging", "sending"}

-----------------------------------------------------------------------------
(* Raid rules that read a variable the raid does not have *)

(* the rules _match_raid_rules consults for these testvars on a channel *)
RaidRulesOn(ch, testvars) ==
    RulesFor(ChannelConf[ch].raidrules,
             IF "dexno" \in DOMAIN testvars THEN Some(testvars["dexno"]) ELSE None)

(* one of the rule's tests reads a variable that testvars lacks *)
ReadsMissing(rule, testvars) ==
    rule.kind = "tests" /\ ~AllTests(rule.tests, testvars, FALSE).ok

(* the rule passes: a literal True, or tests that all hold *)
RaidRulePasses(rule, testvars) ==
    IF rule.kind = "bool" THEN rule.val
    ELSE AllTests(rule.tests, testvars, FALSE) = Ok(TRUE)

(* the rule ends the loop: a literal, or a rule that passes *)
RaidRuleDecides(rule, testvars) ==
    rule.kind = "bool" \/ RaidRulePasses(rule, testvars)

(* a rule of the channel passes and no rule before it ended the loop, a    *)
(* rule that reads a missing variable counting as one that failed          *)
ShouldMatch(ch, testvars) ==
    LET rules == RaidRulesOn(ch, testvars)
    IN  \E i \in 1..Len(rules) :
            /\ RaidRulePasses(rules[i], testvars)
            /\ \A j \in 1..(i - 1) : ~RaidRuleDecides(rules[j], testvars)

(* C30: a raid_notify() call that has run the raid rules did not raise     *)
(* out of the matching, whatever variable a rule read that the raid lacks; *)
(* it matched exactly the channels on which a rule passes with the rules   *)
(* that read a missing variable counted as failed, and when it matched a   *)
(* channel it went on to invoke every sender of the matched channels       *)
C30_MissingVariableFailsRule ==
    \A p \in Calls :
        (call[p].kind = "raid" /\ call[p].evaluated) =>
            /\ call[p].exc # "KeyError"
            /\ call[p].matched =
                    {ch \in Channels : ShouldMatch(ch, call[p].testvars)}
            /\ call[p].matched # {} =>
                    Len(call[p].sends) =
                        Len(ChainSenders(ChannelOrder, call[p].matched))

(* a raid_notify() for an egg has delivered through a channel whose first  *)
(* wildcard rule reads the dexno the egg lacks and whose later wildcard    *)
(* rule passes                                                             *)
C30_Witness ==
    \E p \in Calls :
        /\ call[p].kind = "raid" /\ call[p].pc = "done"
        /\ call[p].ev.pokemon_id = None
        /\ call[p].ret = "True"
        /\ \E ch \in call[p].matched :
              LET rules == RaidRulesOn(ch, call[p].testvars)
              IN  \E i, j \in 1..Len(rules) :
                      /\ i < j
                      /\ ReadsMissing(rules[i], call[p].testvars)
                      /\ RaidRulePasses(rules[j], call[p].testvars)

-----------------------------------------------------------------------------
(* Properties of the channel map built from the legacy settings            *)
(* (SpecLegacy)                                                            *)

(* a spawn has been matched against the channels *)
LegacyMatched == probe.built /\ probe.ev # NoEvent

(* the species of the spawn that was matched *)
MatchedDexno == Head(probe.ev.pokemon_id)

(* C31: a spawn of a species in NEVER_NOTIFY_IDS matches no channel,       *)
(* whatever legacy settings and NotifyConfig rules the channels were built *)
(* from, so that no notification is produced for it                        *)
C31_NeverNotifyMatchesNoChannel ==
    (LegacyMatched /\ MatchedDexno \in conf.NEVER_NOTIFY_IDS) =>
        \A ch \in ChannelNames : probe.results[ch] # "True"

(* C32: a spawn of a species in ALWAYS_NOTIFY_IDS and not in               *)
(* NEVER_NOTIFY_IDS matches the default channel when its law is empty,     *)
(* whatever its remaining time, score and rank, with or without encounter  *)
(* data, and whatever rules the NotifyConfig added to the channel          *)
C32_AlwaysNotifyMatchesDefault ==
    (/\ LegacyMatched
     /\ MatchedDexno \in conf.ALWAYS_NOTIFY_IDS \ conf.NEVER_NOTIFY_IDS
     /\ probe.chans["default"].spawnlaw = <<>>) =>
        probe.results["default"] = "True"

(* an always-notify spawn without encounter data and with less than        *)
(* TIME_REQUIRED left matched the default channel, on which the            *)
(* NotifyConfig had put a rule for the species that it does not pass       *)
C32_Witness ==
    /\ LegacyMatched
    /\ MatchedDexno \in conf.ALWAYS_NOTIFY_IDS \ conf.NEVER_NOTIFY_IDS
    /\ probe.ev.ivsum = None
    /\ probe.testvars["remain"] < TIME_REQUIRED
    /\ probe.stored["default"] # <<>>
    /\ probe.results["default"] = "True"
    /\ probe.results["named"] = "False"

-----------------------------------------------------------------------------
(* Properties of close_senders and test_senders (SpecSenders) *)

(* the senders whose coroutine ended with an exception *)
FailedTasks == {i \in 1..Len(probe.tasks) : probe.tasks[i] \notin {"pending", "ok"}}

(* close() has been invoked on every sender *)
AllInvoked == Len(probe.tasks) = probe.n

(* what holds of a close_senders call while it waits and once it is over *)
CloseSendersSafe ==
    /\ (probe.op = "close" /\ probe.pc = "gathering") => AllInvoked
    /\ (probe.op = "close" /\ probe.pc = "done") =>
            /\ AllInvoked
            /\ \A i \in 1..probe.n : probe.tasks[i] # "pending"
            /\ probe.logged = FailedTasks
            /\ probe.exc = ""
            /\ probe.ret = "None"

(* C33: close_senders invokes close() on every sender at once, so that no  *)
(* sender keeps another from being closed; every call of it comes to an    *)
(* end, whether or not any close() ever ends by itself; at its end every   *)
(* close() has returned, raised or been abandoned at the timeout, exactly  *)
(* the senders whose close() raised or timed out are logged, and the call  *)
(* returns without raising                                                 *)
C33_CloseSendersTerminates ==
    /\ []CloseSendersSafe
    /\ (probe.op = "close") ~> (probe.op = "close" /\ probe.pc = "done")

(* a close_senders call is over in which one close() returned, one raised  *)
(* and one was abandoned at the timeout, and the shared web session raised *)
(* ClientError                                                             *)
C33_Witness ==
    /\ probe.op = "close" /\ probe.pc = "done"
    /\ \E i, j, k \in 1..Len(probe.tasks) :
            /\ probe.tasks[i] = "ok"
            /\ probe.tasks[j] \in {"SenderError", "Exception"}
            /\ probe.tasks[k] = "TimeoutError"
    /\ probe.session = "ClientError"
    /\ probe.ret = "None"

(* C34: a test_senders call that is over did not raise; it returned False  *)
(* if the test() of a sender failed, with whatever error, and True if the  *)
(* test() of every sender succeeded                                        *)
C34_TestSendersTrueIffAllOk ==
    (probe.op = "test" /\ probe.pc = "done") =>
        /\ probe.exc = ""
        /\ FailedTasks # {} => probe.ret = "False"
        /\ (\A i \in 1..Len(probe.tasks) : probe.tasks[i] = "ok") =>
                probe.ret = "True"

-----------------------------------------------------------------------------
(* Properties of the matching step of notify() *)

(* this step runs the rule matching of the notify() call in slot p *)
SpawnMatches(p) ==
    /\ call'[p].kind = "spawn"
    /\ call'[p].evaluated
    /\ ~(call[p].kind = "spawn" /\ call[p].evaluated)

(* the channels whose rules the testvars pass at cooldown timestamps pr *)
PassingChannels(c, pr) ==
    {ch \in Channels :
        MatchRules(ch, Head(c.ev.pokemon_id), c.testvars, FALSE,
                   CooldownGet(pr[ch], now)) = Ok(TRUE)}

(* C35: the step of notify() that evaluates the channels' rules is the     *)
(* step that resets the cooldown of the channels it matched, with no       *)
(* suspension between the two, and no two calls run their matching in one  *)
(* step: the rules are evaluated against the cooldown timestamps as every  *)
(* earlier matching left them, so the call that matches second is tested   *)
(* against the cooldown the first call has reset                           *)
C35_MatchAndResetInOneStep ==
    [][\A p \in Calls :
          SpawnMatches(p) =>
              /\ call'[p].exc = "" =>
                    call'[p].matched = PassingChannels(call'[p], prior)
              /\ \A ch \in call'[p].matched : prior'[ch] = CooldownReset(now)
              /\ \A q \in Calls \ {p} : ~SpawnMatches(q)]_vars

(* two notify() calls for different encounters are under way or over: one  *)
(* matched the default channel and reset its cooldown, the other was       *)
(* evaluated and did not match it, though its testvars pass the channel's  *)
(* rules at the cooldown value from before the reset                       *)
C35_Witness ==
    \E p, q \in Calls :
        /\ p # q
        /\ call[p].kind = "spawn" /\ call[q].kind = "spawn"
        /\ call[p].ev.encounter_id # call[q].ev.encounter_id
        /\ "default" \in call[p].matched
        /\ prior["default"] = CooldownReset(now)
        /\ call[q].evaluated /\ call[q].exc = ""
        /\ "default" \notin call[q].matched
        /\ "default" \in PassingChannels(call[q],
                              [ch \in Channels |-> CooldownInit(0)])

(* the testvars notify() builds before the matching: _make_test_vars and   *)
(* the remain variables of the despawn time or of an estimated range       *)
BuiltTestVars(pokemon) ==
    {Update(MakeTestVars(pokemon, ranks, rareness), MakeRemainVars(r[1], r[2])) :
        r \in IF pokemon.tth # None THEN {<<pokemon.tth, None>>}
              ELSE {<<Some(t[1]), Some(t[2])>> : t \in TimeRanges}}

(* the calls a notify() that waits for its senders handed to gather *)
SendCallsOf(c) ==
    LET senders == ChainSenders(ChannelOrder, c.matched)
    IN  SendCalls(senders, c.ev, SpawnAttachments(senders))

(* C36: the matching step of notify() rewrites the cooldown timestamp of   *)
(* the channels it matched and of no other channel, and leaves the         *)
(* testvars as they were built, without a cooldown key; and the senders of *)
(* a notify() that is sending were all called with the same event and the  *)
(* same attachments, one call per sender of the matched channels           *)
C36_ResetsExactlyMatched ==
    /\ [][\A p \in Calls :
            SpawnMatches(p) =>
                /\ \A ch \in Channels \ call'[p].matched : prior'[ch] = prior[ch]
                /\ \A ch \in call'[p].matched : prior'[ch] = CooldownReset(now)
                /\ "cooldown" \notin DOMAIN call'[p].testvars
                /\ call'[p].testvars \in BuiltTestVars(call'[p].ev)]_vars
    /\ [](\A p \in Calls :
            (call[p].kind = "spawn" /\ call[p].pc = "sending") =>
                LET calls == SendCallsOf(call[p])
                IN  /\ Len(calls) = Len(call[p].sends)
                    /\ \A i, j \in 1..Len(calls) :
                          /\ calls[i].event = calls[j].event
                          /\ calls[i].attachments = calls[j].attachments)

(* a notify() matched one channel and not another, reset the cooldown of   *)
(* the first after the clock had moved and left the other at its initial   *)
(* timestamp, and is sending to more than one sender                       *)
C36_Witness ==
    \E p \in Calls :
        /\ call[p].kind = "spawn" /\ call[p].pc = "sending"
        /\ Len(call[p].sends) > 1
        /\ now > 0
        /\ \E ch \in call[p].matched : prior[ch] = CooldownReset(now)
        /\ \E ch \in Channels \ call[p].matched : prior[ch] = CooldownInit(0)

-----------------------------------------------------------------------------
(* Properties of a failed temp_add                                         *)

(* this step is the statement op, made on an item that was in the set; a   *)
(* step of the clock or of a timer leaves the record of the last statement *)
(* as it was                                                               *)
OnPresentItem(op) ==
    probe' # probe /\ probe'.op = op /\ probe'.item \in handled

FailedTempAdd ==
    OnPresentItem("temp_add") =>
        /\ probe'.raised
        /\ handled' = handled
        /\ timers' = timers
        /\ probe'.open = probe.open

DuplicateCheckFirst ==
    OnPresentItem("notify") =>
        /\ probe'.ret = "False"
        /\ ~probe'.manager
        /\ ~probe'.raised
        /\ handled' = handled
        /\ timers' = timers
        /\ probe'.open = probe.open

(* C37: temp_add() on an item that is already in the set raises ValueError *)
(* on entry and leaves the set, the open blocks and the scheduled removals *)
(* as they were; notify() on an encounter id that is in the set returns    *)
(* False without making a _Manager, and changes none of them either.       *)
C37_FailedTempAddKeepsEntry ==
    [][FailedTempAdd /\ DuplicateCheckFirst]_vars

(* a temp_add has just raised on an item that is kept until its timer      *)
(* runs: the item is still in the set and its timer is still pending       *)
C37_Witness ==
    /\ probe.op = "temp_add"
    /\ probe.raised
    /\ probe.item \in handled
    /\ probe.before = TempSetState
    /\ \E t \in timers : t.item = probe.item /\ t.left > 0

-----------------------------------------------------------------------------
(* Properties of the cooldown of a channel (SpecChannel)                   *)

(* the config file sets both scores, the busy one below the idle one *)
ScoresOutOfOrder ==
    /\ probe.scores.MINIMUM_SCORE # None
    /\ probe.scores.INITIAL_SCORE # None
    /\ Head(probe.scores.INITIAL_SCORE) < Head(probe.scores.MINIMUM_SCORE)

(* a value lies between the idle and the busy value of the cooldown *)
WithinRange(v) ==
    FracLeq(Whole(cooldown.idle), v) /\ FracLeq(v, Whole(cooldown.busy))

(* C38: a channel is made only when its busy value is not below its idle   *)
(* value: with INITIAL_SCORE below MINIMUM_SCORE the construction raises   *)
(* ValueError and nothing is reset or read afterwards; the cooldown of a   *)
(* channel that was made has busy >= idle, and at every moment, before and *)
(* after any reset, the value get() would return and the value the last    *)
(* get() returned lie between idle and busy.                               *)
C38_CooldownWithinRange ==
    /\ probe.made = "ValueError" <=> (probe.made # "no" /\ ScoresOutOfOrder)
    /\ probe.made # "ok" => probe.events = 0
    /\ probe.made = "ok" =>
        /\ cooldown.busy >= cooldown.idle
        /\ WithinRange(CooldownValue(cooldown, now))
        /\ Got => WithinRange(Head(cooldown.got))

(* C38 witness: a channel made with busy above idle was reset after its    *)
(* construction, and a later get() returned a value strictly between idle  *)
(* and busy                                                                *)
C38_Witness ==
    /\ probe.made = "ok"
    /\ cooldown.busy > cooldown.idle
    /\ cooldown.wasreset
    /\ Got /\ cooldown.at = now /\ GotElapsed2 > 0
    /\ ~FracLeq(Head(cooldown.got), Whole(cooldown.idle))
    /\ ~FracLeq(Whole(cooldown.busy), Head(cooldown.got))

-----------------------------------------------------------------------------
(* Properties of a _Cooldown that was never reset (SpecCooldown, where the *)
(* cooldown is constructed at time 0)                                      *)

(* a get() has returned and reset() was never called *)
GotUnreset == Got /\ ~cooldown.wasreset

Midpoint == [num |-> cooldown.busy + cooldown.idle, den |-> 2]

StrictlyBetween(v) ==
    /\ ~FracLeq(v, Whole(cooldown.idle))
    /\ ~FracLeq(Whole(cooldown.busy), v)

(* _prior is half a duration before the construction, and the value lies   *)
(* on the line of a cooldown that was reset then                           *)
AsIfResetBefore ==
    GotUnreset =>
        /\ GotElapsed2 = 2 * cooldown.at + cooldown.duration
        /\ LinearBetween
        /\ IdleWhenOver

(* C39 as stated: a cooldown that was never reset behaves as if reset half *)
(* a duration before its construction; a get() at its construction yields  *)
(* the midpoint of busy and idle, which is neither of them when they       *)
(* differ, and from duration / 2 after the construction get() yields idle  *)
C39_FirstGetIsMidpoint ==
    /\ AsIfResetBefore
    /\ (GotUnreset /\ cooldown.at = 0) =>
            /\ FracEq(Head(cooldown.got), Midpoint)
            /\ cooldown.busy > cooldown.idle => StrictlyBetween(Head(cooldown.got))
    /\ (GotUnreset /\ 2 * cooldown.at >= cooldown.duration) =>
            FracEq(Head(cooldown.got), Whole(cooldown.idle))

(* C39: a cooldown that was never reset behaves as if reset half a         *)
(* duration before its construction.  With a duration above 0 a get() at   *)
(* its construction yields the midpoint of busy and idle, strictly between *)
(* them when they differ, and get() yields idle from duration / 2 after    *)
(* the construction and, when busy and idle differ, not before; with a     *)
(* duration of 0 get() yields idle from the construction on.               *)
C39_MidpointUnlessNoDuration ==
    /\ AsIfResetBefore
    /\ (GotUnreset /\ cooldown.at = 0 /\ cooldown.duration > 0) =>
            /\ FracEq(Head(cooldown.got), Midpoint)
            /\ cooldown.busy > cooldown.idle => StrictlyBetween(Head(cooldown.got))
    /\ (GotUnreset /\ 2 * cooldown.at >= cooldown.duration) =>
            FracEq(Head(cooldown.got), Whole(cooldown.idle))
    /\ (GotUnreset /\ 2 * cooldown.at < cooldown.duration
            /\ cooldown.busy > cooldown.idle) =>
            ~FracEq(Head(cooldown.got), Whole(cooldown.idle))
    /\ (GotUnreset /\ cooldown.duration = 0) =>
            FracEq(Head(cooldown.got), Whole(cooldown.idle))

(* C39 witness: the get() at the construction of a cooldown with busy      *)
(* above idle and a duration above 0 returned the midpoint                 *)
C39_Witness ==
    /\ GotUnreset
    /\ cooldown.at = 0
    /\ cooldown.duration > 0
    /\ cooldown.busy > cooldown.idle
    /\ FracEq(Head(cooldown.got), Midpoint)
    /\ StrictlyBetween(Head(cooldown.got))

====
